---- MODULE Spec2Model ----
(***************************************************************************)
(* Timevault: the snapshot engine (backup/mod.rs), the backup command with *)
(* its cascade pipeline (cli/commands/backup.rs), the per-job PID lock and *)
(* the disk administration commands, as state machines.                    *)
(*                                                                         *)
(* Dated directories are named YYYYMMDD; all names have the same width, so *)
(* the lexicographic order of the names is the numeric order of the days.  *)
(* A day is modelled by its number, and a directory by the day it names.   *)
(***************************************************************************)
EXTENDS Integers, Sequences, FiniteSets, TLC

\* ---- bounds ----
MaxDay == 5
MaxCopies == 2
MaxVersion == 2
MaxMtime == 2
MaxRefreshes == 3

\* ---- program constants ----
MaxAttempts == 3
IDENTITY_VERSION == 1
RC_OK == 0
RC_VANISHED == 24
RC_FAILED == 23

Days == 0..(MaxDay - 1)
RsyncCodes == {RC_OK, RC_VANISHED, RC_FAILED}

\* ---- the catalog used by the runs ----
Uuids == {"ua", "ub"}
DiskIds == {"da", "db"}
AllUuids == Uuids \cup {"uc"}        \* with the third disk of ThreeDisks
AllDiskIds == DiskIds \cup {"dc"}
JobNames == {"home", "etc"}
Volumes == Uuids \cup {"none"}     \* "none": a mountpoint with nothing mounted
Catalog ==
    << [disk_id |-> "da", fs_uuid |-> "ua"],
       [disk_id |-> "db", fs_uuid |-> "ub"] >>

ThreeDisks == Catalog \o << [disk_id |-> "dc", fs_uuid |-> "uc"] >>

EmptyDest == [exists |-> FALSE, dirs |-> {}, current |-> {}]
NoJob == [name |-> "home", source |-> "", copies |-> 0, run_policy |-> "off",
          excludes |-> <<>>, has_ids |-> FALSE, disk_ids |-> <<>>]
NoMode == [dry_run |-> FALSE, safe_mode |-> FALSE]

VARIABLES
    \* the world
    today,          \* the local calendar day (Local::now())
    vol,            \* vol[u][n]: the job directory <mount of u>/<n>
    pidfile,        \* pidfile[n]: /var/run/timevault.<n>.pid
    excludesFile,   \* ~/tmp/timevault.excludes: <<FALSE>> or <<TRUE, lines>>
    media,          \* media[u]: .timevault, blkid's answer, mount's answer
    connected,      \* the fs-uuids present under /dev/disk/by-uuid
    config,         \* backupDisks of the config file
    mounts,         \* the volumes mounted under mount_base
    \* the backup process
    jobs,           \* the jobs of the loaded RuntimeConfig
    pc,
    run_mode,       \* RunMode {dry_run, safe_mode}
    rsync_extra,    \* extra SYNC arguments (config options.rsync + CLI)
    rbJobs,         \* run_backup: jobs
    rbMount,        \* run_backup: disk_mount (the volume mounted there)
    rbRet,          \* where run_backup returns to
    rbResult,       \* run_backup's result
    ji,             \* index of the job of the current loop iteration
    backup_day,     \* local of the iteration
    attempt,        \* number of SYNC attempts made in this iteration
    rc,             \* exit code of the last SYNC attempt
    \* run_backup_command and run_jobs_for_primary
    cascade,        \* --cascade || options.cascade
    disk_arg,       \* --disk-id, "" when not given
    groups,         \* groups[disk_id]: the jobs whose primary is that disk
    gi,             \* position of `for disk in &connected`
    primary,        \* index of the primary disk in the connected list
    pjobs,          \* run_jobs_for_primary: jobs
    ci,             \* position of the cascade loop, 0 outside it
    exit_code,      \* the code the process ended with
    flushed,        \* `sync` was executed in the run
    \* observation
    argv,           \* argv of the last SYNC invocation of the run
    syncExecuted,   \* a SYNC process was executed in the run
    touched,        \* <<volume, job>>: the dest was changed in the run
    failedOn,       \* <<volume, job>>: SYNC failed MaxAttempts times in the run
    trace,          \* the run_backup calls of the run and their returns
    pre,            \* the job directory as it was when the iteration began
    \* two processes at lock_file / unlock_file of one PID path
    lockf,          \* the PID file: who created the inode at the path, its text
    lpc,            \* lpc[p]: where process p is
    tries,          \* tries[p]: iterations of `for _ in 0..3` begun
    seen,           \* seen[p]: the text p read from the PID path
    stolen,         \* a PID file created by a live process was removed by another
    \* a disk administration command (cli/commands/disk_add.rs)
    apc,
    acmd,           \* the command line: --dry-run, selectors, --force
    aexit,          \* the code the command ended with
    \* an identity file written, read back and verified (disk/identity.rs)
    ipc,
    idIn,           \* the DiskIdentity handed to write_identity
    idWant,         \* the disk-id and fs-uuid verification expects
    idFile,         \* the YAML document at <root>/.timevault
    tampered,       \* the key that was edited in the file, or ""
    idOut,          \* what read_identity returned
    idVerdict,      \* what verify_identity returned
    \* select_disk called by `disk mount` (disk/mod.rs)
    spc,
    selArg,         \* --disk-id, "" for None
    selOut,         \* what select_disk returned
    \* load_config (config/load.rs)
    cpc,
    cfgRaw,         \* the deserialised Config
    cfgOut,         \* what parse_runtime returned
    \* save_config (config/save.rs)
    svpc,
    cfgDisk,        \* the lines of the config file on disk
    svData,         \* the lines save_config is writing
    \* the pristine cache (backup/pristine.rs), one package-owned path
    prFile,         \* the file at the path
    prCache,        \* the path's entry of pristine-cache.json
    prExcluded,     \* the path is in the exclude list last returned
    prFirst,        \* the hash stored when the path was first observed
    prSeen,         \* what each refresh found and stored
    \* the mount tracker and the signal task (lib.rs, signal_handler.rs)
    sig,            \* the process: tracker, mounts, main thread, signal task
    \* `disk mount` (cli/commands/mount.rs)
    mt,             \* the command: where it is, its argument, disk and result
    \* create_temp_dir (util/paths.rs)
    tmp,            \* the base directory, the clock, the calls that returned
    \* run_command and run_nice_ionice (util/command.rs)
    cm,             \* the call and what it did
    \* expire_old_backups on a dest with entries of every kind
    ex,             \* the call and what it deleted
    \* copy_snapshot_without_symlinks (backup/mod.rs)
    sd,             \* the call and what it left below backup_dir
    \* two invocations that run different jobs (backup/mod.rs)
    xinv            \* xinv[p]: where invocation p is, what its SYNC read

cmdVars == << media, connected, config, mounts, cascade, disk_arg, groups, gi,
             primary, pjobs, ci, exit_code, flushed >>
lockVars == << lockf, lpc, tries, seen, stolen >>
adminVars == << apc, acmd, aexit >>
identVars == << ipc, idIn, idWant, idFile, tampered, idOut, idVerdict >>
selVars == << spc, selArg, selOut >>
loadVars == << cpc, cfgRaw, cfgOut >>
saveVars == << svpc, cfgDisk, svData >>
prVars == << prFile, prCache, prExcluded, prFirst, prSeen >>
sigVars == << sig >>
mntVars == << mt >>
tmpVars == << tmp >>
cmVars == << cm >>
exVars == << ex >>
sdVars == << sd >>

\* the fields of the process of sig
tracked == sig.tracked      \* MountTracker: the set behind the mutex
kmounted == sig.kmounted    \* the mountpoints the program mounted, still mounted
mpc == sig.mpc              \* where the main thread is
mjob == sig.mjob            \* the mountpoint of the job of the main thread
hpc == sig.hpc              \* where the signal task is
hlist == sig.hlist          \* the signal task's sorted list, what is left of it
hdone == sig.hdone          \* the mountpoints umount was invoked on, in order
sexit == sig.sexit          \* the code the process exited with, -1 while it runs
\* the fields of mt
mtpc == mt.pc
mtArg == mt.arg             \* --disk-id, "" for None
mtDisk == mt.disk           \* the fs-uuid of the disk select_disk returned
mtOut == mt.out             \* how run_mount returned
\* the fields of tmp
tdirs == tmp.dirs           \* the directories under base
tnow == tmp.now             \* Utc::now() in milliseconds
tret == tmp.ret             \* the calls that returned: process, path, was it new
cmIn == cm.in
cmOut == cm.out
exIn == ex.in
exOut == ex.out
sdIn == sd.in
sdOut == sd.out
xclVars == << xinv >>
lateVars == << sigVars, mntVars, tmpVars, cmVars, exVars, sdVars, xclVars >>
moreVars == << selVars, loadVars, saveVars, prVars, lateVars >>
outsideBackup == << lockVars, adminVars, identVars, moreVars >>
engineVars == << jobs, pc, run_mode, rsync_extra, rbJobs, rbMount, rbRet, rbResult,
                 ji, backup_day, attempt, rc, argv, syncExecuted, failedOn, touched,
                 trace, pre >>
worldVars == << today, vol, pidfile, excludesFile >>
vars == << today, vol, pidfile, excludesFile, jobs, pc, run_mode, rsync_extra,
           rbJobs, rbMount, rbRet, rbResult, ji, backup_day, attempt, rc,
           argv, syncExecuted, failedOn, touched, trace, pre, cmdVars, outsideBackup >>

\* ---------------------------------------------------------------------
\* Pure helpers of the snapshot engine
\* ---------------------------------------------------------------------

\* a retention that sorts the names the wrong way round
Oldest_newest(S, k) == {d \in S : Cardinality({e \in S : e > d}) < k}

\* the k smallest names of a set of dated directories (backups.sort(); take(k))
Oldest(S, k) == {d \in S : Cardinality({e \in S : e < d}) < k}

\* Path::exists() on dest/current: follows the symlink
CurrentExists(dest) == dest.current # {} /\ dest.current \subseteq dest.dirs

\* (Local::now() - 1 day).format("%Y%m%d")
BackupDayOf(now) == now - 1

\* a retention that keeps one directory too many
expire_old_backups_keep_one_more(dirs, copies, mode) ==
    IF Cardinality(dirs) <= copies + 1 THEN dirs
    ELSE IF mode.safe_mode \/ mode.dry_run THEN dirs
    ELSE dirs \ Oldest(dirs, Cardinality(dirs) - copies - 1)

\* expire_old_backups: the dated directories left in dest
expire_old_backups(dirs, copies, mode) ==
    IF Cardinality(dirs) <= copies THEN dirs
    ELSE IF mode.safe_mode \/ mode.dry_run THEN dirs
    ELSE dirs \ Oldest(dirs, Cardinality(dirs) - copies)

\* a run_rsync that passes the delete flags in every mode
RsyncArgs_always_delete(source, dir, extra, mode) ==
    << "rsync", "-ar", "--stats", "--exclude-from",
       "--delete-after", "--delete-excluded" >>
    \o extra \o << source, dir >>

\* run_rsync: the argv handed to nice/ionice
RsyncArgs(source, dir, extra, mode) ==
    << "rsync", "-ar", "--stats", "--exclude-from" >>
    \o (IF ~mode.safe_mode THEN << "--delete-after", "--delete-excluded" >>
        ELSE << >>)
    \o extra \o << source, dir >>

\* a variant that takes only exit code 0 as success
rsync_ok_only_zero(code) == code = RC_OK

\* run_backup: the exit codes of SYNC that count as success
rsync_ok(code) == code = RC_OK \/ code = RC_VANISHED

\* a `current` update that does not look at the SYNC result
UpdateCurrent_any_rc(dest, day, code, mode) ==
    IF day \notin dest.dirs
    THEN [current |-> dest.current, failed |-> FALSE]
    ELSE IF mode.safe_mode \/ mode.dry_run
         THEN [current |-> dest.current, failed |-> FALSE]
         ELSE [current |-> {day}, failed |-> FALSE]

\* run_backup, the `current` update: the new link and whether symlink() failed
UpdateCurrent(dest, day, code, mode) ==
    IF ~(rsync_ok(code) /\ day \in dest.dirs)
    THEN [current |-> dest.current, failed |-> FALSE]
    ELSE LET removed == IF dest.current # {} /\ ~(mode.safe_mode \/ mode.dry_run)
                        THEN {} ELSE dest.current
             linkExists == removed # {} /\ removed \subseteq dest.dirs
         IN IF linkExists \/ mode.dry_run
            THEN [current |-> removed, failed |-> FALSE]
            ELSE IF removed # {}
                 THEN [current |-> removed, failed |-> TRUE]
                 ELSE [current |-> {day}, failed |-> FALSE]

\* lock_file as one process sees it when nobody interleaves
LockFileAlone(file) ==
    IF file = "live" THEN [got |-> FALSE, file |-> file]
    ELSE [got |-> TRUE, file |-> "own"]

\* unlock_file
unlock_file(file) == IF file = "own" THEN "absent" ELSE file

\* what is recorded when run_backup is entered and when it returns
StartEvent(js, u, ret) ==
    [ev |-> "start", disk |-> u, role |-> ret,
     names |-> [i \in 1..Len(js) |-> js[i].name], result |-> "none"]
EndEvent(result) ==
    [trace[Len(trace)] EXCEPT !.ev = "end", !.result = result]

Job == IF ji \in 1..Len(rbJobs) THEN rbJobs[ji] ELSE NoJob
Dest == vol[rbMount][Job.name]
SetDest(d) == [vol EXCEPT ![rbMount][Job.name] = d]

\* the dests changed so far in the run, after a step on the job's dest
Touched ==
    IF vol' # vol THEN touched \cup {<< rbMount, Job.name >>} ELSE touched


\* ---------------------------------------------------------------------
\* run_backup (backup/mod.rs): one loop iteration per job
\* ---------------------------------------------------------------------

Return(result) ==
    /\ pc' = "rb_ret"
    /\ rbResult' = result
    /\ trace' = Append(trace, EndEvent(result))
    /\ ji' = 0 /\ backup_day' = 0 /\ attempt' = 0 /\ rc' = 1
    /\ pre' = EmptyDest

\* let _lock = acquire_lock_for_job(&job.name, run_mode)?;
acquire_lock_for_job ==
    /\ pc = "rb_lock"
    /\ IF ji > Len(rbJobs)
       THEN /\ Return("ok")
            /\ UNCHANGED pidfile
       ELSE IF run_mode.dry_run
       THEN /\ pc' = "rb_prepare"
            /\ pre' = Dest
            /\ UNCHANGED << pidfile, rbResult, ji, backup_day, attempt, rc, trace >>
       ELSE LET l == LockFileAlone(pidfile[Job.name])
            IN IF l.got
               THEN /\ pidfile' = [pidfile EXCEPT ![Job.name] = l.file]
                    /\ pc' = "rb_prepare"
                    /\ pre' = Dest
                    /\ UNCHANGED << rbResult, ji, backup_day, attempt, rc, trace >>
               ELSE /\ Return("locked")
                    /\ UNCHANGED pidfile
    /\ UNCHANGED << today, vol, excludesFile, jobs, run_mode, rsync_extra, rbJobs,
                    rbMount, rbRet, argv, syncExecuted, failedOn, touched >>
    /\ UNCHANGED << cmdVars, outsideBackup >>

\* an excludes file that is written in dry-run too
ExcludesAfter_dry_run_too(file, job, mode) == << TRUE, job.excludes >>

\* lines 62-67 and create_excludes_file: the excludes file after the step
ExcludesAfter(file, job, mode) ==
    IF mode.dry_run THEN file ELSE << TRUE, job.excludes >>

\* lines 57-90: the excludes file, backup_day, dest
prepare_job ==
    /\ pc = "rb_prepare"
    /\ excludesFile' = ExcludesAfter(excludesFile, Job, run_mode)
    /\ backup_day' = BackupDayOf(today)
    /\ vol' = IF ~Dest.exists /\ ~run_mode.dry_run
              THEN SetDest([Dest EXCEPT !.exists = TRUE])
              ELSE vol
    /\ pc' = "rb_expire"
    /\ UNCHANGED << today, pidfile, jobs, run_mode, rsync_extra, rbJobs, rbMount,
                    rbRet, rbResult, ji, attempt, rc, argv, syncExecuted, failedOn, trace, pre >>
    /\ touched' = Touched
    /\ UNCHANGED << cmdVars, outsideBackup >>

\* expire_old_backups(&job, &dest, run_mode)?;
expire_step ==
    /\ pc = "rb_expire"
    /\ vol' = IF Dest.exists
              THEN SetDest([Dest EXCEPT
                       !.dirs = expire_old_backups(Dest.dirs, Job.copies, run_mode)])
              ELSE vol
    /\ pc' = "rb_seed"
    /\ UNCHANGED << today, pidfile, excludesFile, jobs, run_mode, rsync_extra, rbJobs,
                    rbMount, rbRet, rbResult, ji, backup_day, attempt, rc,
                    argv, syncExecuted, failedOn, trace, pre >>
    /\ touched' = Touched
    /\ UNCHANGED << cmdVars, outsideBackup >>

\* lines 94-104: hardlink seed of backup_dir from current
seed_step ==
    /\ pc = "rb_seed"
    /\ vol' = IF CurrentExists(Dest) /\ backup_day \notin Dest.dirs
                 /\ ~run_mode.dry_run
              THEN SetDest([Dest EXCEPT !.dirs = @ \cup {backup_day}])
              ELSE vol
    /\ pc' = "rb_rsync"
    /\ attempt' = 0
    /\ rc' = 1
    /\ UNCHANGED << today, pidfile, excludesFile, jobs, run_mode, rsync_extra, rbJobs,
                    rbMount, rbRet, rbResult, ji, backup_day, argv, syncExecuted, failedOn, trace,
                    pre >>
    /\ touched' = Touched
    /\ UNCHANGED << cmdVars, outsideBackup >>

\* one pass of `for attempt in 1..=3` in dry-run: nothing is executed, rc = 0
rsync_dry ==
    /\ pc = "rb_rsync"
    /\ run_mode.dry_run
    /\ attempt' = attempt + 1
    /\ rc' = RC_OK
    /\ pc' = "rb_current"
    /\ UNCHANGED << today, vol, pidfile, excludesFile, jobs, run_mode, rsync_extra,
                    rbJobs, rbMount, rbRet, rbResult, ji, backup_day, argv,
                    syncExecuted, failedOn, touched, trace, pre >>
    /\ UNCHANGED << cmdVars, outsideBackup >>

\* one pass of `for attempt in 1..=3`: SYNC runs and ends with `code`;
\* a successful SYNC has created backup_dir, a failed one may have
rsync_attempt(code, made) ==
    /\ pc = "rb_rsync"
    /\ ~run_mode.dry_run
    /\ rsync_ok(code) => made
    /\ argv' = RsyncArgs(Job.source, ToString(backup_day), rsync_extra, run_mode)
    /\ syncExecuted' = TRUE
    /\ failedOn' = IF ~rsync_ok(code) /\ attempt + 1 >= MaxAttempts
                   THEN failedOn \cup {<< rbMount, Job.name >>}
                   ELSE failedOn
    /\ vol' = IF made /\ Dest.exists
              THEN SetDest([Dest EXCEPT !.dirs = @ \cup {backup_day}])
              ELSE vol
    /\ attempt' = attempt + 1
    /\ rc' = code
    /\ pc' = IF rsync_ok(code) \/ attempt + 1 >= MaxAttempts
             THEN "rb_current" ELSE "rb_rsync"
    /\ UNCHANGED << today, pidfile, excludesFile, jobs, run_mode, rsync_extra, rbJobs,
                    rbMount, rbRet, rbResult, ji, backup_day, pre, trace >>
    /\ touched' = Touched
    /\ UNCHANGED << cmdVars, outsideBackup >>

\* lines 116-145: the `current` update
current_step ==
    /\ pc = "rb_current"
    /\ LET u == UpdateCurrent(Dest, backup_day, rc, run_mode)
       IN /\ vol' = SetDest([Dest EXCEPT !.current = u.current])
          /\ pc' = IF u.failed THEN "rb_fail" ELSE "rb_next"
    /\ UNCHANGED << today, pidfile, excludesFile, jobs, run_mode, rsync_extra, rbJobs,
                    rbMount, rbRet, rbResult, ji, backup_day, attempt, rc,
                    argv, syncExecuted, failedOn, trace, pre >>
    /\ touched' = Touched
    /\ UNCHANGED << cmdVars, outsideBackup >>

\* end of the iteration: _lock is dropped, the loop goes on
next_job ==
    /\ pc = "rb_next"
    /\ pidfile' = IF run_mode.dry_run THEN pidfile
                  ELSE [pidfile EXCEPT ![Job.name] = unlock_file(@)]
    /\ ji' = ji + 1
    /\ pc' = "rb_lock"
    /\ backup_day' = 0 /\ attempt' = 0 /\ rc' = 1
    /\ pre' = EmptyDest
    /\ UNCHANGED << today, vol, excludesFile, jobs, run_mode, rsync_extra, rbJobs,
                    rbMount, rbRet, rbResult, argv, syncExecuted, failedOn, touched, trace >>
    /\ UNCHANGED << cmdVars, outsideBackup >>

\* symlink(&backup_day, &current_link)? failed: _lock is dropped, Err returned
fail_job ==
    /\ pc = "rb_fail"
    /\ pidfile' = IF run_mode.dry_run THEN pidfile
                  ELSE [pidfile EXCEPT ![Job.name] = unlock_file(@)]
    /\ Return("err")
    /\ UNCHANGED << today, vol, excludesFile, jobs, run_mode, rsync_extra, rbJobs,
                    rbMount, rbRet, argv, syncExecuted, failedOn, touched >>
    /\ UNCHANGED << cmdVars, outsideBackup >>

run_backup ==
    \/ acquire_lock_for_job
    \/ prepare_job
    \/ expire_step
    \/ seed_step
    \/ rsync_dry
    \/ \E code \in RsyncCodes, made \in BOOLEAN : rsync_attempt(code, made)
    \/ current_step
    \/ next_job
    \/ fail_job


\* ---------------------------------------------------------------------
\* The world around the process
\* ---------------------------------------------------------------------

\* midnight passes
Tick ==
    /\ today < MaxDay
    /\ today' = today + 1
    /\ UNCHANGED << vol, pidfile, excludesFile, jobs, pc, run_mode, rsync_extra,
                    rbJobs, rbMount, rbRet, rbResult, ji, backup_day, attempt,
                    rc, argv, syncExecuted, failedOn, touched, trace, pre >>
    /\ UNCHANGED << cmdVars, outsideBackup >>

\* another invocation takes a job's lock, releases it, or dies holding it
other_invocation(n) ==
    /\ pidfile[n] \in {"absent", "live"}
    /\ \E f \in {"absent", "live", "stale"} :
          /\ f # pidfile[n]
          /\ pidfile[n] = "absent" => f = "live"
          /\ pidfile' = [pidfile EXCEPT ![n] = f]
    /\ UNCHANGED << today, vol, excludesFile, jobs, pc, run_mode, rsync_extra,
                    rbJobs, rbMount, rbRet, rbResult, ji, backup_day, attempt,
                    rc, argv, syncExecuted, failedOn, touched, trace, pre >>
    /\ UNCHANGED << cmdVars, outsideBackup >>

\* the extra SYNC arguments tried
ExtraArgs == { << >>, << "--delete-after" >> }

\* a job of the config: no disk affinity, run: auto
HomeJob(copies) ==
    [name |-> "home", source |-> "/home", copies |-> copies,
     run_policy |-> "auto", excludes |-> << "*.tmp" >>,
     has_ids |-> FALSE, disk_ids |-> << >>]

\* ---------------------------------------------------------------------
\* Disks: identity (disk/identity.rs), filesystem type (disk/fs_type.rs),
\* selection (disk/mod.rs)
\* ---------------------------------------------------------------------

AllowedFs == {"ext2", "ext3", "ext4", "xfs", "jfs", "btrfs", "zfs", "f2fs"}

\* FsType::from_str
FsTypeFromStr(value) == IF value = "zfs_member" THEN "zfs" ELSE value

\* FsType::is_allowed
is_allowed(fs_type) == fs_type \in AllowedFs

\* the identity file as read_identity sees it:
\* kind "missing" (no file), "garbage" (not YAML of a DiskIdentity), "yaml"
Identity(version, disk_id, fs_uuid, fs_type) ==
    [kind |-> "yaml", version |-> version, disk_id |-> disk_id,
     fs_uuid |-> fs_uuid, fs_type |-> fs_type]
NoIdentity == [kind |-> "missing", version |-> 0, disk_id |-> "",
               fs_uuid |-> "", fs_type |-> ""]
BadIdentity == [kind |-> "garbage", version |-> 0, disk_id |-> "",
                fs_uuid |-> "", fs_type |-> ""]

\* a verify_identity that does not compare the fs-uuid
verify_identity_no_uuid(identity, disk_id, fs_uuid) ==
    /\ identity.version = IDENTITY_VERSION
    /\ identity.disk_id = disk_id

\* verify_identity: TRUE for Ok(()), FALSE for IdentityMismatch
verify_identity(identity, disk_id, fs_uuid) ==
    /\ identity.version = IDENTITY_VERSION
    /\ identity.disk_id = disk_id
    /\ identity.fs_uuid = fs_uuid

\* an exit_for_disk_error that has one code for every DiskError
ExitCodeFor_always_2(err) == 2

\* exit_for_disk_error
ExitCodeFor(err) ==
    CASE err = "NoDiskConnected" -> 10
      [] err = "MultipleDisksConnected" -> 11
      [] err = "IdentityMismatch" -> 12
      [] err = "DiskNotEmpty" -> 13
      [] err = "MountFailure" -> 14
      [] err = "UmountFailure" -> 14
      [] OTHER -> 2

\* the connected disks, last of the catalog first
connected_disks_in_order_reversed(disks) ==
    LET s == SelectSeq(disks, LAMBDA d : d.fs_uuid \in connected)
    IN [i \in 1..Len(s) |-> s[Len(s) + 1 - i]]

\* connected_disks_in_order
connected_disks_in_order(disks) ==
    SelectSeq(disks, LAMBDA d : d.fs_uuid \in connected)

ConnList == connected_disks_in_order(config)

InSeq(x, seq) == \E i \in 1..Len(seq) : seq[i] = x

\* job_requires_disk
job_requires_disk(job, disk_id) == job.has_ids /\ InSeq(disk_id, job.disk_ids)

\* a filter that ignores the job's diskIds
allowed_disks_for_job_ignores_ids(job, conn) == conn

\* allowed_disks_for_job
allowed_disks_for_job(job, conn) ==
    IF job.has_ids
    THEN SelectSeq(conn, LAMBDA d : InSeq(d.disk_id, job.disk_ids))
    ELSE conn

\* mount_and_verify, lines 399-444: what the checks on the mounted disk say
\*   "ok", "exit" (exit_for_disk_error after drop(disk_guard)),
\*   "err" (Err returned, the guard dropped on the way out)
VerifyOutcome(disk, m) ==
    IF m.identity.kind = "missing" THEN [res |-> "exit", err |-> "IdentityMismatch"]
    ELSE IF m.identity.kind = "garbage" THEN [res |-> "err", err |-> "Message"]
    ELSE IF ~verify_identity(m.identity, disk.disk_id, disk.fs_uuid)
         THEN [res |-> "exit", err |-> "IdentityMismatch"]
    ELSE IF m.blkid = "" THEN [res |-> "err", err |-> "Message"]
    ELSE IF ~is_allowed(FsTypeFromStr(m.blkid)) THEN [res |-> "err", err |-> "Other"]
    ELSE IF m.identity.fs_type # ""
            /\ FsTypeFromStr(m.identity.fs_type) # FsTypeFromStr(m.blkid)
         THEN [res |-> "err", err |-> "IdentityMismatch"]
    ELSE [res |-> "ok", err |-> ""]

\* mount_disk_guarded: "" when the mount succeeds, else the DiskError
MountOutcome(disk, m) ==
    IF disk.fs_uuid \notin connected THEN "Other"
    ELSE IF disk.fs_uuid \in mounts THEN "Other"
    ELSE IF ~m.mountable THEN "MountFailure"
    ELSE ""

\* ---------------------------------------------------------------------
\* run_backup_command and run_jobs_for_primary (cli/commands/backup.rs)
\* ---------------------------------------------------------------------

NoGroups == [d \in AllDiskIds |-> << >>]

\* run() hands the Err of a backup command on to its caller with `?`: the
\* process ends as a Rust main that returns Err does, or through
\* exit_for_error
PropagatedCodes(err) == {1, IF err = "Message" THEN 2 ELSE ExitCodeFor(err)}

\* what run_backup sees under mount_base/<fs-uuid>: the disk, or in dry-run
\* (where nothing is mounted) the bare mountpoint
View(u) == IF run_mode.dry_run /\ u \notin mounts THEN "none" ELSE u

\* the locals of run_backup and of the SYNC invocation
Locals == << rbJobs, rbMount, rbRet, rbResult, ji, backup_day, attempt, rc,
             pre, rsync_extra, argv, failedOn, touched, trace >>

\* the process ends: its memory is gone
Exit(code) ==
    /\ pc' = "exited"
    /\ exit_code' = code
    /\ groups' = NoGroups /\ gi' = 0 /\ primary' = 0 /\ pjobs' = << >>
    /\ ci' = 0
    /\ rbJobs' = << >> /\ rbMount' = "none" /\ rbRet' = "harness"
    /\ rbResult' = "none"
    /\ ji' = 0 /\ backup_day' = 0 /\ attempt' = 0 /\ rc' = 1
    /\ pre' = EmptyDest
    /\ rsync_extra' = << >>
    /\ argv' = << >>
    /\ failedOn' = {} /\ touched' = {}
    /\ trace' = << >>

\* the disk mount_and_verify is working on
MvDisk == IF ci > 0 THEN ConnList[ci] ELSE ConnList[primary]

\* the cascade passes of a disk: cascades[disk.disk_id]
CascadeJobs(disk) ==
    SelectSeq(pjobs, LAMBDA j :
        /\ disk.fs_uuid # ConnList[primary].fs_uuid
        /\ \E i \in 1..Len(allowed_disks_for_job(j, ConnList)) :
               /\ allowed_disks_for_job(j, ConnList)[i].disk_id = disk.disk_id
               /\ allowed_disks_for_job(j, ConnList)[i].fs_uuid
                      # ConnList[primary].fs_uuid)

\* the job of a cascade pass: source rewritten to the primary's current
CascadeSource(u, name) == "/mounts/" \o u \o "/" \o name \o "/current"

\* a cascade pass that keeps the configured source
job_override_keeps_source(job) == job

job_override(job) ==
    [job EXCEPT !.source = CascadeSource(ConnList[primary].fs_uuid, job.name)]

\* source.exists() for the cascade source of a job
SourceExists(job) ==
    CurrentExists(vol[View(ConnList[primary].fs_uuid)][job.name])

\* the CLI hands over a RunMode, --cascade, --disk-id and the SYNC extras
start_backup_command ==
    /\ pc \in {"idle", "exited"}
    /\ \E dry \in BOOLEAN, safe \in BOOLEAN :
          run_mode' = [dry_run |-> dry, safe_mode |-> safe]
    /\ \E c \in BOOLEAN : cascade' = c
    /\ \E d \in {""} \cup AllDiskIds : disk_arg' = d
    /\ \E extra \in ExtraArgs : rsync_extra' = extra
    /\ pc' = "plan"
    /\ exit_code' = 0
    /\ flushed' = FALSE
    /\ argv' = << >>
    /\ syncExecuted' = FALSE
    /\ failedOn' = {} /\ touched' = {}
    /\ trace' = << >>
    /\ UNCHANGED << today, vol, pidfile, excludesFile, media, connected, config,
                    mounts, jobs, rbJobs, rbMount, rbRet, rbResult, ji,
                    backup_day, attempt, rc, pre, groups, gi, primary, pjobs,
                    ci >>
    /\ UNCHANGED outsideBackup

\* run_backup_command, lines 32-164: job selection, the connected disks,
\* the primary of --disk-id or the groups
plan ==
    /\ pc = "plan"
    /\ LET auto == SelectSeq(jobs, LAMBDA j : j.run_policy = "auto")
           to_run == IF disk_arg = "" THEN auto
                     ELSE SelectSeq(auto, LAMBDA j : job_requires_disk(j, disk_arg))
           found == SelectSeq(config, LAMBDA d : d.disk_id = disk_arg)
           stranded == \E i \in 1..Len(to_run) :
                           allowed_disks_for_job(to_run[i], ConnList) = << >>
           primaryOf(j) == allowed_disks_for_job(j, ConnList)[1].disk_id
       IN IF config = << >> THEN \E code \in PropagatedCodes("Message") : Exit(code)
          ELSE IF to_run = << >> THEN Exit(2)
          ELSE IF ConnList = << >> THEN Exit(ExitCodeFor("NoDiskConnected"))
          ELSE IF disk_arg # ""
               THEN IF found = << >> \/ found[1].fs_uuid \notin connected
                    THEN Exit(ExitCodeFor("Other"))
                    ELSE /\ primary' = CHOOSE i \in 1..Len(ConnList) :
                                           ConnList[i].fs_uuid = found[1].fs_uuid
                         /\ pjobs' = to_run
                         /\ gi' = Len(ConnList)
                         /\ pc' = "mv_mount"
                         /\ UNCHANGED << groups, ci, exit_code, Locals >>
          ELSE IF stranded THEN Exit(2)
          ELSE /\ groups' = [d \in AllDiskIds |->
                               SelectSeq(to_run, LAMBDA j : primaryOf(j) = d)]
               /\ gi' = 0
               /\ pc' = "next_group"
               /\ UNCHANGED << primary, pjobs, ci, exit_code, Locals >>
    /\ UNCHANGED << today, vol, pidfile, excludesFile, media, connected, config,
                    mounts, jobs, run_mode, cascade, disk_arg, syncExecuted,
                    flushed >>
    /\ UNCHANGED outsideBackup

\* `for disk in &connected`: the next disk that has a group
next_group ==
    /\ pc = "next_group"
    /\ LET rest == {i \in (gi + 1)..Len(ConnList) :
                        groups[ConnList[i].disk_id] # << >>}
       IN IF rest = {}
          THEN /\ pc' = "finish"
               /\ gi' = Len(ConnList)
               /\ UNCHANGED << groups, primary, pjobs >>
          ELSE LET i == CHOOSE k \in rest : \A l \in rest : k <= l
               IN /\ gi' = i
                  /\ primary' = i
                  /\ pjobs' = groups[ConnList[i].disk_id]
                  /\ groups' = [groups EXCEPT ![ConnList[i].disk_id] = << >>]
                  /\ pc' = "mv_mount"
    /\ UNCHANGED << today, vol, pidfile, excludesFile, media, connected, config,
                    mounts, jobs, run_mode, cascade, disk_arg, Locals,
                    syncExecuted, ci, exit_code, flushed >>
    /\ UNCHANGED outsideBackup

\* run_backup(jobs, rsync_extra, run_mode, mountpoint) is entered
CallRunBackup(js, u, ret) ==
    /\ rbJobs' = js
    /\ rbMount' = View(u)
    /\ rbRet' = ret
    /\ rbResult' = "none"
    /\ ji' = 1
    /\ pc' = "rb_lock"
    /\ trace' = Append(trace, StartEvent(js, u, ret))
    /\ UNCHANGED << backup_day, attempt, rc, pre, rsync_extra, argv, failedOn, touched >>

\* mount_and_verify returns Ok to run_jobs_for_primary
Verified ==
    /\ IF ci > 0 THEN pc' = "casc_jobs" /\ UNCHANGED Locals
       ELSE CallRunBackup(pjobs, MvDisk.fs_uuid, "primary")
    /\ UNCHANGED << exit_code, groups, gi, primary, pjobs, ci >>

\* mount_and_verify, lines 388-397: mount_disk_guarded unless dry-run
mv_mount ==
    /\ pc = "mv_mount"
    /\ IF run_mode.dry_run
       THEN Verified /\ UNCHANGED mounts
       ELSE LET e == MountOutcome(MvDisk, media[MvDisk.fs_uuid])
            IN IF e # ""
               THEN Exit(ExitCodeFor(e)) /\ UNCHANGED mounts
               ELSE /\ mounts' = mounts \cup {MvDisk.fs_uuid}
                    /\ pc' = "mv_verify"
                    /\ UNCHANGED << exit_code, groups, gi, primary, pjobs, ci,
                                    Locals >>
    /\ UNCHANGED << today, vol, pidfile, excludesFile, media, connected, config,
                    jobs, run_mode, cascade, disk_arg, syncExecuted, flushed >>
    /\ UNCHANGED outsideBackup

\* mount_and_verify, lines 399-446: identity and filesystem type.  An Err
\* unwinds run_jobs_for_primary, whose guards are dropped; process::exit in
\* exit_for_disk_error runs no destructor
mv_verify ==
    /\ pc = "mv_verify"
    /\ LET v == VerifyOutcome(MvDisk, media[MvDisk.fs_uuid])
       IN CASE v.res = "ok" ->
                 Verified /\ UNCHANGED mounts
            [] v.res = "exit" ->
                 /\ mounts' = mounts \ {MvDisk.fs_uuid}
                 /\ Exit(ExitCodeFor(v.err))
            [] v.res = "err" ->
                 /\ mounts' = mounts \ {MvDisk.fs_uuid, ConnList[primary].fs_uuid}
                 /\ \E code \in PropagatedCodes(v.err) : Exit(code)
    /\ UNCHANGED << today, vol, pidfile, excludesFile, media, connected, config,
                    jobs, run_mode, cascade, disk_arg, syncExecuted, flushed >>
    /\ UNCHANGED outsideBackup

\* a run_backup_checked that answers 1 for every Err
CheckedCode_always_1(result) == 1

\* run_backup_checked: the exit code for run_backup's Err
CheckedCode(result) ==
    CASE result = "locked" -> 3
      [] result = "lockerr" -> 2
      [] OTHER -> 1

\* drop(guard) of a mount_and_verify guard: None in dry-run
Dropped(disks) == IF run_mode.dry_run THEN mounts ELSE mounts \ disks

\* run_jobs_for_primary, lines 229-236: the primary's run_backup is back
primary_done ==
    /\ pc = "rb_ret"
    /\ rbRet = "primary"
    /\ IF rbResult # "ok"
       THEN /\ mounts' = Dropped({ConnList[primary].fs_uuid})
            /\ Exit(CheckedCode(rbResult))
       ELSE IF cascade
       THEN /\ pc' = "casc_next"
            /\ ci' = 0
            /\ UNCHANGED << mounts, exit_code, groups, gi, primary, pjobs, Locals >>
       ELSE /\ mounts' = Dropped({ConnList[primary].fs_uuid})
            /\ pc' = "next_group"
            /\ primary' = 0 /\ pjobs' = << >> /\ ci' = 0
            /\ UNCHANGED << exit_code, groups, gi, Locals >>
    /\ UNCHANGED << today, vol, pidfile, excludesFile, media, connected, config,
                    jobs, run_mode, cascade, disk_arg, syncExecuted, flushed >>
    /\ UNCHANGED outsideBackup

\* `for disk in connected` of the cascade: the next disk with cascade passes
casc_next ==
    /\ pc = "casc_next"
    /\ LET rest == {i \in (ci + 1)..Len(ConnList) :
                        CascadeJobs(ConnList[i]) # << >>}
       IN IF rest = {}
          THEN /\ mounts' = Dropped({ConnList[primary].fs_uuid})
               /\ pc' = "next_group"
               /\ primary' = 0 /\ pjobs' = << >> /\ ci' = 0
          ELSE /\ ci' = CHOOSE k \in rest : \A l \in rest : k <= l
               /\ pc' = "mv_mount"
               /\ UNCHANGED << mounts, primary, pjobs >>
    /\ UNCHANGED << today, vol, pidfile, excludesFile, media, connected, config,
                    jobs, run_mode, cascade, disk_arg, Locals, syncExecuted,
                    groups, gi, exit_code, flushed >>
    /\ UNCHANGED outsideBackup

\* lines 256-283: the cascaded jobs of the mounted target
casc_jobs ==
    /\ pc = "casc_jobs"
    /\ LET list == CascadeJobs(ConnList[ci])
           missing == \E i \in 1..Len(list) : ~SourceExists(list[i])
           present == SelectSeq(list, SourceExists)
           cascaded == [i \in 1..Len(present) |-> job_override(present[i])]
       IN IF ~run_mode.dry_run /\ missing
          THEN /\ mounts' = mounts \ {ConnList[ci].fs_uuid, ConnList[primary].fs_uuid}
               /\ Exit(1)
          ELSE IF cascaded = << >>
          THEN /\ mounts' = Dropped({ConnList[ci].fs_uuid})
               /\ pc' = "casc_next"
               /\ UNCHANGED << exit_code, groups, gi, primary, pjobs, ci, Locals >>
          ELSE /\ CallRunBackup(cascaded, ConnList[ci].fs_uuid, "cascade")
               /\ UNCHANGED << mounts, exit_code, groups, gi, primary, pjobs, ci >>
    /\ UNCHANGED << today, vol, pidfile, excludesFile, media, connected, config,
                    jobs, run_mode, cascade, disk_arg, syncExecuted, flushed >>
    /\ UNCHANGED outsideBackup

\* lines 282-289: the cascade target's run_backup is back
cascade_done ==
    /\ pc = "rb_ret"
    /\ rbRet = "cascade"
    /\ IF rbResult # "ok"
       THEN /\ mounts' = Dropped({ConnList[ci].fs_uuid, ConnList[primary].fs_uuid})
            /\ Exit(CheckedCode(rbResult))
       ELSE /\ mounts' = Dropped({ConnList[ci].fs_uuid})
            /\ pc' = "casc_next"
            /\ UNCHANGED << exit_code, groups, gi, primary, pjobs, ci, Locals >>
    /\ UNCHANGED << today, vol, pidfile, excludesFile, media, connected, config,
                    jobs, run_mode, cascade, disk_arg, syncExecuted, flushed >>
    /\ UNCHANGED outsideBackup

\* lines 186-192: `sync` unless dry-run, then Ok(())
finish ==
    /\ pc = "finish"
    /\ flushed' = ~run_mode.dry_run
    /\ Exit(0)
    /\ UNCHANGED << today, vol, pidfile, excludesFile, media, connected, config,
                    mounts, jobs, run_mode, cascade, disk_arg, syncExecuted >>
    /\ UNCHANGED outsideBackup

run_backup_command ==
    \/ start_backup_command
    \/ plan
    \/ next_group
    \/ mv_mount
    \/ mv_verify
    \/ primary_done
    \/ casc_next
    \/ casc_jobs
    \/ cascade_done
    \/ finish

\* ---- the disks of the runs ----

GoodMedia(d) ==
    [identity |-> Identity(IDENTITY_VERSION, d.disk_id, d.fs_uuid, "ext4"),
     blkid |-> "ext4", mountable |-> TRUE]

OtherDiskId(id) == CHOOSE o \in DiskIds : o # id
OtherUuid(u) == CHOOSE o \in Uuids : o # u

\* a disk as enrolled, and the ways it can differ from that
MediaChoices(d) ==
    { GoodMedia(d),
      [GoodMedia(d) EXCEPT !.identity.fs_type = ""],
      [GoodMedia(d) EXCEPT !.identity = NoIdentity],
      [GoodMedia(d) EXCEPT !.identity = BadIdentity],
      [GoodMedia(d) EXCEPT !.identity.version = IDENTITY_VERSION + 1],
      [GoodMedia(d) EXCEPT !.identity.disk_id = OtherDiskId(d.disk_id)],
      [GoodMedia(d) EXCEPT !.identity.fs_uuid = OtherUuid(d.fs_uuid)],
      [GoodMedia(d) EXCEPT !.blkid = "xfs"],
      [GoodMedia(d) EXCEPT !.blkid = "vfat"],
      [GoodMedia(d) EXCEPT !.blkid = "vfat", !.identity.fs_type = "vfat"],
      [GoodMedia(d) EXCEPT !.blkid = ""],
      [GoodMedia(d) EXCEPT !.mountable = FALSE] }

DiskOfUuid(u) == CHOOSE i \in 1..Len(Catalog) : Catalog[i].fs_uuid = u

InitCommandIdle ==
    /\ cascade = FALSE
    /\ disk_arg = ""
    /\ groups = NoGroups
    /\ gi = 0 /\ primary = 0 /\ pjobs = << >> /\ ci = 0
    /\ exit_code = 0
    /\ flushed = FALSE

\* ---------------------------------------------------------------------
\* lock_file / unlock_file step by step (backup/mod.rs), two live processes
\* on the PID path of one job
\* ---------------------------------------------------------------------

Procs == {1, 2}

\* std::process::id(); process 0 is one that has died
PidOf(p) == 100 + p
KnownPids == {PidOf(p) : p \in Procs \cup {0}}

\* writeln!(f, "{}", pid)
PidLine(pid) == ToString(pid) \o "\n"

\* text.trim().parse::<u32>().ok(): 0 stands for None
ParsePid(text) ==
    IF \E pid \in KnownPids : text = PidLine(pid)
    THEN CHOOSE pid \in KnownPids : text = PidLine(pid)
    ELSE 0

\* Path::new("/proc").join(pid).exists()
ProcExists(pid) == \E p \in Procs : pid = PidOf(p)

NoFile == [present |-> FALSE, creator |-> 0, text |-> ""]
StaleFile == [present |-> TRUE, creator |-> 0, text |-> PidLine(PidOf(0))]

lockRest == << today, vol, pidfile, excludesFile, engineVars, cmdVars, adminVars,
              identVars, moreVars >>

\* a process calls lock_file
lock_file_call(p) ==
    /\ lpc[p] = "idle"
    /\ lpc' = [lpc EXCEPT ![p] = "open"]
    /\ tries' = [tries EXCEPT ![p] = 0]
    /\ UNCHANGED << lockf, seen, stolen >>
    /\ UNCHANGED lockRest

\* line 253-254: the next iteration, OpenOptions::create_new; line 279
lock_file_open(p) ==
    /\ lpc[p] = "open"
    /\ IF tries[p] = MaxAttempts
       THEN /\ lpc' = [lpc EXCEPT ![p] = "idle"]
            /\ UNCHANGED << lockf, tries >>
       ELSE /\ tries' = [tries EXCEPT ![p] = @ + 1]
            /\ IF ~lockf.present
               THEN /\ lockf' = [present |-> TRUE, creator |-> p, text |-> ""]
                    /\ lpc' = [lpc EXCEPT ![p] = "write"]
               ELSE /\ lpc' = [lpc EXCEPT ![p] = "read"]
                    /\ UNCHANGED lockf
    /\ UNCHANGED << seen, stolen >>
    /\ UNCHANGED lockRest

\* line 256-257: the PID goes to the inode that was created, which is at the
\* path only while nobody has removed it
lock_file_write(p) ==
    /\ lpc[p] = "write"
    /\ lockf' = IF lockf.present /\ lockf.creator = p
                THEN [lockf EXCEPT !.text = PidLine(PidOf(p))]
                ELSE lockf
    /\ lpc' = [lpc EXCEPT ![p] = "held"]
    /\ UNCHANGED << tries, seen, stolen >>
    /\ UNCHANGED lockRest

\* line 260-269: read_to_string, parse, /proc
lock_file_read(p) ==
    /\ lpc[p] = "read"
    /\ IF ~lockf.present
       THEN /\ lpc' = [lpc EXCEPT ![p] = "open"]
            /\ UNCHANGED seen
       ELSE /\ seen' = [seen EXCEPT ![p] = lockf.text]
            /\ lpc' = [lpc EXCEPT ![p] =
                         IF ParsePid(lockf.text) # 0 /\ ProcExists(ParsePid(lockf.text))
                         THEN "idle" ELSE "remove"]
    /\ UNCHANGED << lockf, tries, stolen >>
    /\ UNCHANGED lockRest

\* line 270-274: remove_file, whatever is at the path by now
lock_file_remove(p) ==
    /\ lpc[p] = "remove"
    /\ lockf' = NoFile
    /\ stolen' = (stolen \/ (lockf.present /\ lockf.creator \in Procs \ {p}))
    /\ lpc' = [lpc EXCEPT ![p] = "open"]
    /\ UNCHANGED << tries, seen >>
    /\ UNCHANGED lockRest

\* unlock_file, line 283-289: read and compare with the own PID
unlock_file_read(p) ==
    /\ lpc[p] = "held"
    /\ lpc' = [lpc EXCEPT ![p] =
                 IF /\ lockf.present
                    /\ ParsePid(lockf.text) = PidOf(p)
                    /\ ProcExists(PidOf(p))
                 THEN "unl_remove" ELSE "idle"]
    /\ UNCHANGED << lockf, tries, seen, stolen >>
    /\ UNCHANGED lockRest

\* unlock_file, line 290
unlock_file_remove(p) ==
    /\ lpc[p] = "unl_remove"
    /\ lockf' = NoFile
    /\ stolen' = (stolen \/ (lockf.present /\ lockf.creator \in Procs \ {p}))
    /\ lpc' = [lpc EXCEPT ![p] = "idle"]
    /\ UNCHANGED << tries, seen >>
    /\ UNCHANGED lockRest

InitLockIdle ==
    /\ lockf = NoFile
    /\ lpc = [p \in Procs |-> "idle"]
    /\ tries = [p \in Procs |-> 0]
    /\ seen = [p \in Procs |-> ""]
    /\ stolen = FALSE

\* ---------------------------------------------------------------------
\* disk enroll / unenroll / rename (cli/commands/disk_add.rs), as run()
\* dispatches them: run_mode is not among their arguments
\* ---------------------------------------------------------------------

AdminIds == DiskIds \cup {"dc"}

NoCmd == [cmd |-> "none", dry_run |-> FALSE, fs_uuid |-> "", disk_id |-> "",
          new_id |-> "", force |-> FALSE]

AdminCmds ==
    [cmd : {"enroll", "unenroll", "rename"}, dry_run : BOOLEAN,
     fs_uuid : {""} \cup Uuids, disk_id : {""} \cup DiskIds,
     new_id : {"dc"}, force : BOOLEAN]

adminRest == << today, pidfile, excludesFile, connected, engineVars, cascade,
                disk_arg, groups, gi, primary, pjobs, ci, exit_code, flushed,
                lockVars, identVars, moreVars >>

\* the command ends; the command line it was given is kept only as far as
\* the command and --dry-run go
AdminExit(code) == apc' = "done" /\ aexit' = code
Ended(c) == [NoCmd EXCEPT !.cmd = c.cmd, !.dry_run = c.dry_run]
CmdAfter(c) == IF apc' = "done" THEN Ended(c) ELSE c

\* entries of the disk's root other than lost+found
DiskEmpty(u) ==
    /\ media[u].identity.kind = "missing"
    /\ \A n \in JobNames : ~vol[u][n].exists

Enrolled(u) == \E i \in 1..Len(config) : config[i].fs_uuid = u
\* an enroll and a rename that never find the disk-id in the config
IdTaken_never(id) == FALSE
IdTaken(id) == \E i \in 1..Len(config) : config[i].disk_id = id

\* selectors that take the first of several disks with the disk-id
SelectEntry_takes_first(fs_uuid, disk_id) ==
    LET hits == {i \in 1..Len(config) :
                    /\ (fs_uuid # "" => config[i].fs_uuid = fs_uuid)
                    /\ (disk_id # "" => config[i].disk_id = disk_id)}
    IN IF hits = {} THEN (IF fs_uuid # "" THEN 0 ELSE -1)
       ELSE CHOOSE i \in hits : \A j \in hits : i <= j

\* the entry the selectors of unenroll and rename pick: 0 for None,
\* -1 for "not found", -2 for "multiple disks with disk-id"
SelectEntry(fs_uuid, disk_id) ==
    IF fs_uuid # ""
    THEN LET hits == {i \in 1..Len(config) :
                         /\ config[i].fs_uuid = fs_uuid
                         /\ (disk_id # "" => config[i].disk_id = disk_id)}
         IN IF hits = {} THEN 0 ELSE CHOOSE i \in hits : \A j \in hits : i <= j
    ELSE LET matches == {i \in 1..Len(config) :
                            disk_id # "" /\ config[i].disk_id = disk_id}
         IN IF matches = {} THEN -1
            ELSE IF Cardinality(matches) > 1 THEN -2
            ELSE CHOOSE i \in matches : TRUE

RemoveAt(seq, idx) ==
    [i \in 1..(Len(seq) - 1) |-> IF i < idx THEN seq[i] ELSE seq[i + 1]]

\* run(): the command line is parsed and the command dispatched
start_admin ==
    /\ apc \in {"idle", "done"}
    /\ \E c \in AdminCmds :
          /\ acmd' = c
          /\ apc' = c.cmd
    /\ aexit' = 0
    /\ UNCHANGED << vol, media, config, mounts >>
    /\ UNCHANGED adminRest

\* run_enroll, lines 34-72: up to mount_device
enroll_mount ==
    /\ apc = "enroll"
    /\ LET u == acmd.fs_uuid
       IN IF u = "" THEN AdminExit(2) /\ UNCHANGED mounts
          ELSE IF Enrolled(u) THEN AdminExit(ExitCodeFor("Other")) /\ UNCHANGED mounts
          ELSE IF u \notin connected
               THEN AdminExit(ExitCodeFor("Other")) /\ UNCHANGED mounts
          ELSE IF u \in mounts
               THEN AdminExit(ExitCodeFor("Other")) /\ UNCHANGED mounts
          ELSE IF media[u].blkid = "" THEN AdminExit(2) /\ UNCHANGED mounts
          ELSE IF ~is_allowed(FsTypeFromStr(media[u].blkid))
               THEN AdminExit(ExitCodeFor("Other")) /\ UNCHANGED mounts
          ELSE IF ~media[u].mountable
               THEN AdminExit(ExitCodeFor("MountFailure")) /\ UNCHANGED mounts
          ELSE /\ mounts' = mounts \cup {u}
               /\ apc' = "en_mounted"
               /\ UNCHANGED aexit
    /\ acmd' = CmdAfter(acmd)
    /\ UNCHANGED << vol, media, config >>
    /\ UNCHANGED adminRest

\* run_enroll, lines 74-154: identity, emptiness, write_identity, drop(guard),
\* save_config.  process::exit(2) leaves the guard undropped
enroll_finish ==
    /\ apc = "en_mounted"
    /\ LET u == acmd.fs_uuid
           id == media[u].identity
           has == id.kind # "missing"
           raw == IF has /\ (acmd.disk_id = "" \/ ~acmd.force)
                  THEN id.disk_id ELSE acmd.disk_id
           existing == has /\ ~acmd.force
           fail(code) == /\ AdminExit(code)
                         /\ mounts' = mounts \ {u}
                         /\ UNCHANGED << media, config >>
       IN IF id.kind = "garbage" THEN fail(2)
          ELSE IF has /\ id.fs_uuid # u THEN fail(ExitCodeFor("Other"))
          ELSE IF has /\ acmd.disk_id # "" /\ ~acmd.force /\ acmd.disk_id # id.disk_id
               THEN fail(ExitCodeFor("Other"))
          ELSE IF ~has /\ acmd.disk_id = ""
               THEN AdminExit(2) /\ UNCHANGED << mounts, media, config >>
          ELSE IF IdTaken(raw) THEN fail(ExitCodeFor("Other"))
          ELSE IF ~existing /\ ~DiskEmpty(u) /\ ~acmd.force
               THEN fail(ExitCodeFor("DiskNotEmpty"))
          ELSE /\ media' = IF acmd.force \/ ~existing
                           THEN [media EXCEPT ![u].identity =
                                    Identity(IDENTITY_VERSION, raw, u,
                                             FsTypeFromStr(media[u].blkid))]
                           ELSE media
               /\ mounts' = mounts \ {u}
               /\ config' = Append(config, [disk_id |-> raw, fs_uuid |-> u])
               /\ AdminExit(0)
    /\ acmd' = CmdAfter(acmd)
    /\ UNCHANGED vol
    /\ UNCHANGED adminRest

\* run_unenroll
run_unenroll ==
    /\ apc = "unenroll"
    /\ LET idx == SelectEntry(acmd.fs_uuid, acmd.disk_id)
       IN IF acmd.disk_id = "" /\ acmd.fs_uuid = ""
          THEN AdminExit(2) /\ UNCHANGED config
          ELSE IF idx <= 0 THEN AdminExit(2) /\ UNCHANGED config
          ELSE /\ config' = RemoveAt(config, idx)
               /\ AdminExit(0)
    /\ acmd' = CmdAfter(acmd)
    /\ UNCHANGED << vol, media, mounts >>
    /\ UNCHANGED adminRest

\* run_rename, lines 287-377 and 400-424: the config entry is renamed and
\* saved, then the disk is mounted
rename_config ==
    /\ apc = "rename"
    /\ LET idx == SelectEntry(acmd.fs_uuid, acmd.disk_id)
           keep == UNCHANGED << config, mounts >> /\ acmd' = CmdAfter(acmd)
       IN IF acmd.disk_id = "" /\ acmd.fs_uuid = "" THEN AdminExit(2) /\ keep
          ELSE IF IdTaken(acmd.new_id) THEN AdminExit(2) /\ keep
          ELSE IF idx < 0 THEN AdminExit(2) /\ keep
          ELSE IF idx > 0
          THEN LET u == config[idx].fs_uuid
                   disk == [config[idx] EXCEPT !.disk_id = acmd.new_id]
                   e == MountOutcome(disk, media[u])
               IN /\ config' = [config EXCEPT ![idx] = disk]
                  /\ IF u \notin connected THEN AdminExit(0) /\ UNCHANGED mounts
                     ELSE IF e # "" THEN AdminExit(ExitCodeFor(e)) /\ UNCHANGED mounts
                     ELSE /\ mounts' = mounts \cup {u}
                          /\ apc' = "rn_mounted"
                          /\ UNCHANGED aexit
                  /\ acmd' = CmdAfter([acmd EXCEPT !.fs_uuid = u])
          ELSE LET u == acmd.fs_uuid
               IN IF u \notin connected \/ u \in mounts
                  THEN AdminExit(ExitCodeFor("Other")) /\ keep
                  ELSE IF ~media[u].mountable
                  THEN AdminExit(ExitCodeFor("MountFailure")) /\ keep
                  ELSE /\ mounts' = mounts \cup {u}
                       /\ apc' = "rn_mounted"
                       /\ UNCHANGED << config, acmd, aexit >>
    /\ UNCHANGED << vol, media >>
    /\ UNCHANGED adminRest

\* run_rename, lines 378-398 and 425-454: the identity is rewritten
rename_identity ==
    /\ apc = "rn_mounted"
    /\ LET u == acmd.fs_uuid
           id == media[u].identity
       IN /\ mounts' = mounts \ {u}
          /\ IF id.kind = "missing"
             THEN AdminExit(ExitCodeFor("IdentityMismatch")) /\ UNCHANGED media
             ELSE IF id.kind = "garbage" THEN AdminExit(2) /\ UNCHANGED media
             ELSE IF id.fs_uuid # u
             THEN AdminExit(ExitCodeFor("IdentityMismatch")) /\ UNCHANGED media
             ELSE /\ media' = [media EXCEPT ![u].identity.disk_id = acmd.new_id]
                  /\ AdminExit(0)
    /\ acmd' = CmdAfter(acmd)
    /\ UNCHANGED << vol, config >>
    /\ UNCHANGED adminRest

\* ---------------------------------------------------------------------
\* The identity file (disk/identity.rs): written by write_identity as YAML,
\* read back by read_identity, checked by verify_identity
\* ---------------------------------------------------------------------

Versions == 0..MaxVersion
IdStrings == {"da", "db", "1"}
UuidStrings == {"ua", "ub"}
FsTypes == {"", "ext4", "zfs"}         \* "": fs_type is None

\* a YAML scalar: its text and whether it is written in quotes
Scalar(q, t) == [quoted |-> q, text |-> t]

\* serde_yaml writes a string in quotes when the plain text would be read
\* as a number, a boolean or null
NeedsQuotes(t) ==
    t \in {ToString(n) : n \in Versions} \cup {"", "true", "false", "null", "~"}
YamlString(t) == Scalar(NeedsQuotes(t), t)

\* u32 from a scalar: a plain decimal numeral, else -1 for the parse error
ParseU32(sc) ==
    IF ~sc.quoted /\ \E n \in 0..(MaxVersion + 1) : ToString(n) = sc.text
    THEN CHOOSE n \in 0..(MaxVersion + 1) : ToString(n) = sc.text
    ELSE -1

NoDocument ==
    [version |-> Scalar(FALSE, ""), diskId |-> Scalar(FALSE, ""),
     fsUuid |-> Scalar(FALSE, ""), fsType |-> << >>, created |-> << >>]

\* a write_identity that writes the disk-id under both keys
write_identity_id_twice(identity) ==
    [version |-> Scalar(FALSE, ToString(identity.version)),
     diskId |-> YamlString(identity.disk_id),
     fsUuid |-> YamlString(identity.disk_id),
     fsType |-> IF identity.fs_type = "" THEN << >>
                ELSE << YamlString(identity.fs_type) >>,
     created |-> << YamlString("2025-01-01T00:00:00Z") >>]

\* write_identity: serde_yaml::to_string of the DiskIdentity; fsType is
\* skipped when None
write_identity(identity) ==
    [version |-> Scalar(FALSE, ToString(identity.version)),
     diskId |-> YamlString(identity.disk_id),
     fsUuid |-> YamlString(identity.fs_uuid),
     fsType |-> IF identity.fs_type = "" THEN << >>
                ELSE << YamlString(identity.fs_type) >>,
     created |-> << YamlString("2025-01-01T00:00:00Z") >>]

\* read_identity: serde_yaml::from_str into DiskIdentity; a version that is
\* not a u32 or a missing `created` is a parse error
read_identity(doc) ==
    IF ParseU32(doc.version) < 0 \/ doc.created = << >> THEN BadIdentity
    ELSE Identity(ParseU32(doc.version), doc.diskId.text, doc.fsUuid.text,
                  IF doc.fsType = << >> THEN ""
                  ELSE FsTypeFromStr(doc.fsType[1].text))

identRest == << today, vol, pidfile, excludesFile, engineVars, cmdVars, lockVars,
               adminVars, moreVars >>

write_identity_step ==
    /\ ipc = "new"
    /\ idFile' = write_identity(idIn)
    /\ ipc' = "written"
    /\ UNCHANGED << idIn, idWant, tampered, idOut, idVerdict >>
    /\ UNCHANGED identRest

\* somebody edits one of version, diskId, fsUuid in the file
tamper(key, sc) ==
    /\ ipc = "written"
    /\ tampered = ""
    /\ idFile[key] # sc
    /\ idFile' = [idFile EXCEPT ![key] = sc]
    /\ tampered' = key
    /\ UNCHANGED << ipc, idIn, idWant, idOut, idVerdict >>
    /\ UNCHANGED identRest

read_identity_step ==
    /\ ipc = "written"
    /\ idOut' = read_identity(idFile)
    /\ ipc' = "read"
    /\ UNCHANGED << idIn, idWant, idFile, tampered, idVerdict >>
    /\ UNCHANGED identRest

\* the caller verifies what read_identity returned, unless it was an Err
verify_identity_step ==
    /\ ipc = "read"
    /\ idVerdict' = IF idOut.kind # "yaml" THEN "unreadable"
                    ELSE IF verify_identity(idOut, idWant[1], idWant[2]) THEN "ok"
                    ELSE "IdentityMismatch"
    /\ ipc' = "verified"
    /\ UNCHANGED << idIn, idWant, idFile, tampered, idOut >>
    /\ UNCHANGED identRest

VersionScalars ==
    {Scalar(FALSE, ToString(n)) : n \in Versions}
        \cup {Scalar(TRUE, "1"), Scalar(FALSE, "x")}

NextIdentity ==
    \/ write_identity_step
    \/ \E sc \in VersionScalars : tamper("version", sc)
    \/ \E t \in IdStrings : tamper("diskId", YamlString(t))
    \/ \E t \in UuidStrings : tamper("fsUuid", YamlString(t))
    \/ read_identity_step
    \/ verify_identity_step

InitIdentityIdle ==
    /\ ipc = "idle"
    /\ idIn = NoIdentity
    /\ idWant = << "", "" >>
    /\ idFile = NoDocument
    /\ tampered = ""
    /\ idOut = NoIdentity
    /\ idVerdict = "none"

\* ---------------------------------------------------------------------
\* select_disk (disk/mod.rs), as `disk mount` calls it
\* ---------------------------------------------------------------------

NoDisk == [disk_id |-> "", fs_uuid |-> ""]
Selected(d) == [ok |-> TRUE, disk |-> d, err |-> ""]
SelectErr(e) == [ok |-> FALSE, disk |-> NoDisk, err |-> e]

\* a selection that takes the first connected disk when there are several
select_disk_from_connected_takes_first(disks, disk_id, connected_uuids) ==
    LET conn == SelectSeq(disks, LAMBDA d : d.fs_uuid \in connected_uuids)
    IN IF conn = << >> THEN SelectErr("NoDiskConnected") ELSE Selected(conn[1])

\* select_disk_from_connected; disk_id "" is None
select_disk_from_connected(disks, disk_id, connected_uuids) ==
    IF disks = << >> THEN SelectErr("Other: no backup disks enrolled")
    ELSE IF disk_id # ""
    THEN LET found == SelectSeq(disks, LAMBDA d : d.disk_id = disk_id)
         IN IF found = << >> THEN SelectErr("Other: not found in config")
            ELSE IF found[1].fs_uuid \notin connected_uuids
                 THEN SelectErr("Other: not connected")
                 ELSE Selected(found[1])
    ELSE LET conn == SelectSeq(disks, LAMBDA d : d.fs_uuid \in connected_uuids)
         IN IF conn = << >> THEN SelectErr("NoDiskConnected")
            ELSE IF Len(conn) > 1 THEN SelectErr("MultipleDisksConnected")
            ELSE Selected(conn[1])

\* select_disk: the fs-uuids of connected_disks_in_order are the connected set
select_disk(disks, disk_id) ==
    LET conn == connected_disks_in_order(disks)
    IN select_disk_from_connected(disks, disk_id,
                                  {conn[i].fs_uuid : i \in 1..Len(conn)})

selRest == << today, vol, pidfile, excludesFile, engineVars, cmdVars, lockVars,
             adminVars, identVars, loadVars, saveVars, prVars,
             lateVars >>

\* run_mount: select_disk(&cfg.backup_disks, disk_id)
select_disk_step ==
    /\ spc = "idle"
    /\ \E a \in {""} \cup AllDiskIds :
          /\ selArg' = a
          /\ selOut' = select_disk(config, a)
    /\ spc' = "done"
    /\ UNCHANGED selRest

InitSelectIdle ==
    /\ spc = "idle"
    /\ selArg = ""
    /\ selOut = SelectErr("")

\* ---------------------------------------------------------------------
\* load_config / parse_runtime (config/load.rs). Strings that the loader
\* trims, lower-cases or tests character by character are sequences of
\* one-character strings.
\* ---------------------------------------------------------------------

LowerLetters == {"a", "b", "c", "d", "e", "f", "h", "m", "n", "o", "t", "u"}
UpperLetters == {"A", "D", "E", "M", "N"}
Digits == {"1"}
Whitespace == {" "}

\* char::is_ascii_alphanumeric
is_ascii_alphanumeric(c) == c \in LowerLetters \cup UpperLetters \cup Digits

\* str::to_ascii_lowercase
LowerOf == ("A" :> "a") @@ ("D" :> "d") @@ ("E" :> "e") @@ ("M" :> "m") @@ ("N" :> "n")
to_ascii_lowercase(s) ==
    [i \in 1..Len(s) |-> IF s[i] \in DOMAIN LowerOf THEN LowerOf[s[i]] ELSE s[i]]

\* str::trim
RECURSIVE trim_start(_)
trim_start(s) ==
    IF s # << >> /\ Head(s) \in Whitespace THEN trim_start(Tail(s)) ELSE s
RECURSIVE trim_end(_)
trim_end(s) ==
    IF s # << >> /\ s[Len(s)] \in Whitespace
    THEN trim_end(SubSeq(s, 1, Len(s) - 1)) ELSE s
trim(s) == trim_end(trim_start(s))

\* util::paths::is_safe_name
is_safe_name(name) ==
    /\ name # << >> /\ name # << "." >> /\ name # << ".", "." >>
    /\ \A i \in 1..Len(name) :
          is_ascii_alphanumeric(name[i]) \/ name[i] \in {"-", "_", "."}

\* <DiskId as FromStr>::from_str succeeds
DiskId_from_str_ok(s) ==
    /\ s # << >> /\ s # << "." >> /\ s # << ".", "." >>
    /\ \A i \in 1..Len(s) :
          is_ascii_alphanumeric(s[i]) \/ s[i] \in {"-", "_", "."}

\* RunPolicy::parse, "Err" for an invalid run policy
RunPolicy_parse(value) ==
    LET v == to_ascii_lowercase(trim(value))
    IN IF v = << "a", "u", "t", "o" >> THEN "Auto"
       ELSE IF v = << "d", "e", "m", "a", "n", "d" >> THEN "Demand"
       ELSE IF v = << "o", "f", "f" >> THEN "Off"
       ELSE "Err"

NoIds == [some |-> FALSE, ids |-> << >>]
SomeIds(ids) == [some |-> TRUE, ids |-> ids]

\* the disk-ids that occur more than once in backupDisks
duplicate_disk_ids(disks) ==
    {disks[i].disk_id : i \in {k \in 1..Len(disks) :
                                \E j \in 1..(k - 1) : disks[j].disk_id = disks[k].disk_id}}
\* the first loop of parse_runtime fails on a repeated fs-uuid
DuplicateFsUuid(disks) ==
    \E i, j \in 1..Len(disks) : i < j /\ disks[i].fs_uuid = disks[j].fs_uuid

\* the loop over a job's diskIds: the first error, "" for none
RECURSIVE RawIdsError(_, _)
RawIdsError(raw_ids, disks) ==
    IF raw_ids = << >> THEN ""
    ELSE LET id == Head(raw_ids)
         IN IF ~DiskId_from_str_ok(id) THEN "Invalid: job disk-id does not parse"
            ELSE IF id \in duplicate_disk_ids(disks)
                 THEN "Invalid: job disk-id is duplicated in config"
            ELSE IF \A i \in 1..Len(disks) : disks[i].disk_id # id
                 THEN "Invalid: job disk-id not found in backupDisks"
            ELSE RawIdsError(Tail(raw_ids), disks)

\* `parsed`: the ids in order, each once
RECURSIVE ParsedIds(_)
ParsedIds(raw_ids) ==
    IF raw_ids = << >> THEN << >>
    ELSE LET front == ParsedIds(SubSeq(raw_ids, 1, Len(raw_ids) - 1))
             last == raw_ids[Len(raw_ids)]
         IN IF \E i \in 1..Len(front) : front[i] = last THEN front
            ELSE Append(front, last)

\* a loader that does not compare a job's name with the names before it
JobError_skips_duplicate_names(job, names, disks) ==
    IF RunPolicy_parse(job.run) = "Err" THEN "Invalid: invalid run policy"
    ELSE IF trim(job.source) = << >> THEN "Invalid: source path is empty"
    ELSE IF trim(job.name) = << >> THEN "Invalid: job name is required"
    ELSE IF ~is_safe_name(job.name) THEN "Invalid: job name must use only letters"
    ELSE IF job.disk_ids.some THEN RawIdsError(job.disk_ids.ids, disks)
    ELSE ""

\* the checks on one job in the order of the loop body, "" for none failing
JobError(job, names, disks) ==
    IF RunPolicy_parse(job.run) = "Err" THEN "Invalid: invalid run policy"
    ELSE IF trim(job.source) = << >> THEN "Invalid: source path is empty"
    ELSE IF trim(job.name) = << >> THEN "Invalid: job name is required"
    ELSE IF ~is_safe_name(job.name) THEN "Invalid: job name must use only letters"
    ELSE IF job.name \in names THEN "Invalid: duplicate job name"
    ELSE IF job.disk_ids.some THEN RawIdsError(job.disk_ids.ids, disks)
    ELSE ""

\* model::Job built from a JobConfig that passed the checks
RuntimeJob(job) ==
    [name |-> job.name, source |-> job.source, copies |-> job.copies,
     run_policy |-> RunPolicy_parse(job.run),
     disk_ids |-> IF job.disk_ids.some THEN SomeIds(ParsedIds(job.disk_ids.ids))
                  ELSE NoIds]

ConfigErr(e, w) ==
    [ok |-> FALSE, err |-> e, jobs |-> << >>, backup_disks |-> << >>, warned |-> w]

\* the loop over cfg.jobs: the first error ends it
RECURSIVE ParseJobs(_, _, _, _)
ParseJobs(rest, names, acc, cfg) ==
    LET warned == duplicate_disk_ids(cfg.backup_disks) # {}
    IN IF rest = << >>
       THEN [ok |-> TRUE, err |-> "", jobs |-> acc,
             backup_disks |-> cfg.backup_disks, warned |-> warned]
       ELSE LET job == Head(rest)
                e == JobError(job, names, cfg.backup_disks)
            IN IF e # "" THEN ConfigErr(e, warned)
               ELSE ParseJobs(Tail(rest), names \cup {job.name},
                              Append(acc, RuntimeJob(job)), cfg)

\* parse_runtime
parse_runtime(cfg) ==
    IF DuplicateFsUuid(cfg.backup_disks)
    THEN ConfigErr("Invalid: duplicate fs-uuid", FALSE)
    ELSE ParseJobs(cfg.jobs, {}, << >>, cfg)

\* the strings of the configs that are loaded
Str_home == << "h", "o", "m", "e" >>
Str_etc == << "e", "t", "c" >>
Str_da == << "d", "a" >>
Str_db == << "d", "b" >>
RawNames == {Str_home, << >>, << " " >>, << ".", "." >>, << "a", " ", "b" >>,
             << "h", ".", "1", "-", "_" >>}
RawSources == {<< "/" >>, << >>, << " " >>}
RawRuns == {<< "a", "u", "t", "o" >>, << " ", "D", "E", "M", "A", "N", "D", " " >>,
            << "o", "f", "f" >>, << "n", "o" >>, << >>}
RawIdLists == {NoIds, SomeIds(<< >>), SomeIds(<< Str_da >>), SomeIds(<< Str_db >>),
               SomeIds(<< Str_db, Str_da, Str_db >>), SomeIds(<< << "b", " ", "d" >> >>)}
RawDisk(id, u) == [disk_id |-> id, fs_uuid |-> u]
RawCatalogs ==
    {<< >>,
     << RawDisk(Str_da, "ua") >>,
     << RawDisk(Str_da, "ua"), RawDisk(Str_db, "ub") >>,
     << RawDisk(Str_da, "ua"), RawDisk(Str_da, "ub") >>,
     << RawDisk(Str_da, "ua"), RawDisk(Str_db, "ua") >>,
     << RawDisk(Str_da, "ua"), RawDisk(Str_da, "ub"), RawDisk(Str_db, "uc") >>,
     << RawDisk(<< "b", " ", "d" >>, "ua") >>}
RawJob(n, src, c, r, ids) ==
    [name |-> n, source |-> src, copies |-> c, run |-> r, disk_ids |-> ids]
\* the first job of a config: every field varies
FirstJobs ==
    {RawJob(n, src, c, r, ids) :
        n \in RawNames, src \in RawSources, c \in 0..MaxCopies, r \in RawRuns,
        ids \in RawIdLists}
\* the jobs after it: none, one of the same name, one of another name
LaterJobs ==
    {<< >>,
     << RawJob(Str_home, << "/" >>, 1, << "a", "u", "t", "o" >>, NoIds) >>,
     << RawJob(Str_etc, << "/" >>, 1, << "o", "f", "f" >>, SomeIds(<< Str_da >>)) >>}
RawConfigs ==
    {[backup_disks |-> ds, jobs |-> js] :
        ds \in RawCatalogs,
        js \in {<< >>} \cup {<< j >> \o l : j \in FirstJobs, l \in LaterJobs}}

NoConfig == [backup_disks |-> << >>, jobs |-> << >>]

loadRest == << today, vol, pidfile, excludesFile, engineVars, cmdVars, lockVars,
              adminVars, identVars, selVars, saveVars, prVars,
             lateVars >>

\* load_config on a file that serde_yaml deserialised to cfg
load_config_step ==
    /\ cpc = "idle"
    /\ \E cfg \in RawConfigs :
          /\ cfgRaw' = cfg
          /\ cfgOut' = parse_runtime(cfg)
    /\ cpc' = "done"
    /\ UNCHANGED loadRest

InitLoadIdle ==
    /\ cpc = "idle"
    /\ cfgRaw = NoConfig
    /\ cfgOut = ConfigErr("", FALSE)

\* ---------------------------------------------------------------------
\* save_config (config/save.rs) call by call: File::create, then the
\* write() calls of write_all. The file is a sequence of lines.
\* ---------------------------------------------------------------------

Line(k, v) == << k, v >>

\* the two lines serde_yaml writes for each backup disk
RECURSIVE DiskLines(_)
DiskLines(disks) ==
    IF disks = << >> THEN << >>
    ELSE << Line("- diskId", Head(disks).disk_id),
            Line("  fsUuid", Head(disks).fs_uuid) >> \o DiskLines(Tail(disks))

\* serde_yaml::to_string(cfg): the jobs, then backupDisks
to_string(disks) ==
    << Line("jobs", "home"),
       Line("backupDisks", IF disks = << >> THEN "[]" ELSE "") >> \o DiskLines(disks)

\* the configs that enroll, unenroll and rename save in place of `disks`
Rewrites(disks) ==
    {Append(disks, d) : d \in {ThreeDisks[i] : i \in
        {k \in 1..Len(ThreeDisks) :
            \A j \in 1..Len(disks) : /\ disks[j].fs_uuid # ThreeDisks[k].fs_uuid
                                      /\ disks[j].disk_id # ThreeDisks[k].disk_id}}}
    \cup {RemoveAt(disks, i) : i \in 1..Len(disks)}
    \cup {[disks EXCEPT ![i].disk_id = n] :
             i \in 1..Len(disks),
             n \in {m \in AllDiskIds : \A j \in 1..Len(disks) : disks[j].disk_id # m}}

saveRest == << today, vol, pidfile, excludesFile, engineVars, cmdVars, lockVars,
              adminVars, identVars, selVars, loadVars, prVars,
             lateVars >>

\* lines 8-11: the data is encoded, File::create truncates the file or fails
save_config_create ==
    /\ svpc = "idle"
    /\ \E cfg \in Rewrites(config) : svData' = to_string(cfg)
    /\ \/ svpc' = "created" /\ cfgDisk' = << >>
       \/ svpc' = "failed" /\ UNCHANGED cfgDisk
    /\ UNCHANGED saveRest

\* line 12, one write() of write_all: some more of the data reaches the file
save_config_write ==
    /\ svpc = "created"
    /\ \E n \in (Len(cfgDisk) + 1)..Len(svData) :
          /\ cfgDisk' = SubSeq(svData, 1, n)
          /\ svpc' = IF n = Len(svData) THEN "done" ELSE "created"
    /\ UNCHANGED svData
    /\ UNCHANGED saveRest

\* line 13: a write() fails (disk full, I/O error) and save_config returns Err
save_config_write_error ==
    /\ svpc = "created"
    /\ svpc' = "failed"
    /\ UNCHANGED << cfgDisk, svData >>
    /\ UNCHANGED saveRest

\* the process is killed or the machine stops between two calls
save_config_crash ==
    /\ svpc = "created"
    /\ svpc' = "crashed"
    /\ UNCHANGED << cfgDisk, svData >>
    /\ UNCHANGED saveRest

InitSaveIdle ==
    /\ svpc = "idle"
    /\ cfgDisk = << >>
    /\ svData = << >>

\* ---------------------------------------------------------------------
\* build_pristine_excludes (backup/pristine.rs) for one package-owned path,
\* between edits of the file. The cache file is the one save_cache wrote.
\* ---------------------------------------------------------------------

\* mtime in whole seconds (to_unix_mtime)
Mtimes == 0..MaxMtime
Contents == {"orig", "edit"}
\* "file": a readable regular file; "locked": a regular file that cannot be
\* opened; "gone": nothing, or not a regular file
FileKinds == {"file", "locked", "gone"}

\* hash_file: the hex SHA-256 of the content
hash_file(content) == IF content = "orig" THEN "9f2c" ELSE "41d7"

NoEntry == [present |-> FALSE, mtime |-> 0, hash |-> "", dirty |-> FALSE]
CacheEntry(m, h, dirty) == [present |-> TRUE, mtime |-> m, hash |-> h, dirty |-> dirty]

\* the loop body, lines 93-161: what new_entries holds for the path
RefreshedEntry(file, entry) ==
    IF file.kind = "gone" THEN NoEntry
    ELSE IF entry.present
    THEN IF entry.mtime = file.mtime THEN entry
         ELSE IF file.kind = "locked" THEN NoEntry
         ELSE CacheEntry(file.mtime, entry.hash, hash_file(file.content) # entry.hash)
    ELSE IF file.kind = "locked" THEN NoEntry
    ELSE CacheEntry(file.mtime, hash_file(file.content), FALSE)

Observation(file, entry) ==
    [kind |-> file.kind, content |-> file.content, mtime |-> file.mtime,
     stored |-> entry.present, dirty |-> entry.dirty]

prRest == << today, vol, pidfile, excludesFile, engineVars, cmdVars, lockVars,
            adminVars, identVars, selVars, loadVars, saveVars,
             lateVars >>

\* build_pristine_excludes: the loop, cache.entries = new_entries,
\* save_cache, and the exclude list of the entries that are not dirty
build_pristine_excludes ==
    /\ Len(prSeen) < MaxRefreshes
    /\ LET e == RefreshedEntry(prFile, prCache)
       IN /\ prCache' = e
          /\ prExcluded' = (e.present /\ ~e.dirty)
          /\ prFirst' = IF prFirst = "" /\ e.present THEN e.hash ELSE prFirst
          /\ prSeen' = Append(prSeen, Observation(prFile, e))
    /\ UNCHANGED prFile
    /\ UNCHANGED prRest

\* the file is written, with or without a new mtime
edit_file(c, m) ==
    /\ prFile.kind # "gone"
    /\ c # prFile.content
    /\ prFile' = [prFile EXCEPT !.content = c, !.mtime = m]
    /\ UNCHANGED << prCache, prExcluded, prFirst, prSeen >>
    /\ UNCHANGED prRest

\* the file is removed, made unreadable, or put back as it was
change_kind(k) ==
    /\ k # prFile.kind
    /\ prFile' = [prFile EXCEPT !.kind = k]
    /\ UNCHANGED << prCache, prExcluded, prFirst, prSeen >>
    /\ UNCHANGED prRest

InitPristineIdle ==
    /\ prFile = [kind |-> "gone", content |-> "orig", mtime |-> 0]
    /\ prCache = NoEntry
    /\ prExcluded = FALSE
    /\ prFirst = ""
    /\ prSeen = << >>

\* ---------------------------------------------------------------------
\* Everything below the pristine cache at rest
\* ---------------------------------------------------------------------

IdleProcess == [tracked |-> {}, kmounted |-> {}, mpc |-> "idle", mjob |-> << >>,
                hpc |-> "idle", hlist |-> << >>, hdone |-> << >>, sexit |-> -1]
NotCalled == [in |-> << >>, out |-> << >>]

InitSignalIdle == sig = IdleProcess

InitMountIdle == mt = [pc |-> "idle", arg |-> "", disk |-> "", out |-> ""]

InitTempIdle == tmp = [dirs |-> {}, now |-> 0, ret |-> {}]

InitCommandRunnerIdle == cm = NotCalled

InitExpireIdle == ex = NotCalled

InitSeedIdle == sd = NotCalled

InitInvocationsIdle == xinv = << >>

InitLateIdle ==
    /\ InitInvocationsIdle
    /\ InitSignalIdle
    /\ InitMountIdle
    /\ InitTempIdle
    /\ InitCommandRunnerIdle
    /\ InitExpireIdle
    /\ InitSeedIdle

InitMoreIdle ==
    /\ InitSelectIdle
    /\ InitLoadIdle
    /\ InitSaveIdle
    /\ InitPristineIdle
    /\ InitLateIdle

InitAdminIdle ==
    /\ apc = "idle"
    /\ acmd = NoCmd
    /\ aexit = 0

\* ---------------------------------------------------------------------
\* The snapshot engine on its own: run_backup called, as run_backup_checked
\* calls it, on the mountpoint of a verified disk, run after run
\* ---------------------------------------------------------------------

call_run_backup ==
    /\ pc = "idle"
    /\ \E dry \in BOOLEAN, safe \in BOOLEAN :
          run_mode' = [dry_run |-> dry, safe_mode |-> safe]
    /\ \E extra \in ExtraArgs : rsync_extra' = extra
    /\ rbJobs' = jobs
    /\ rbMount' = "ua"
    /\ rbRet' = "harness"
    /\ rbResult' = "none"
    /\ ji' = 1
    /\ pc' = "rb_lock"
    /\ argv' = << >>
    /\ syncExecuted' = FALSE
    /\ failedOn' = {} /\ touched' = {}
    /\ trace' = << StartEvent(jobs, "ua", "harness") >>
    /\ UNCHANGED << today, vol, pidfile, excludesFile, jobs, backup_day,
                    attempt, rc, pre >>
    /\ UNCHANGED << cmdVars, outsideBackup >>

return_run_backup ==
    /\ pc = "rb_ret"
    /\ rbRet = "harness"
    /\ pc' = "idle"
    /\ failedOn' = {} /\ touched' = {}
    /\ trace' = << >>
    /\ UNCHANGED << today, vol, pidfile, excludesFile, jobs, run_mode,
                    rsync_extra, rbJobs, rbMount, rbRet, rbResult, ji,
                    backup_day, attempt, rc, argv, syncExecuted, pre >>
    /\ UNCHANGED << cmdVars, outsideBackup >>

InitWorld ==
    /\ today = 1
    /\ vol = [u \in Volumes |-> [n \in JobNames |-> EmptyDest]]
    /\ pidfile = [n \in JobNames |-> "absent"]
    /\ excludesFile = << FALSE, << >> >>

InitEngine ==
    /\ pc = "idle"
    /\ run_mode = NoMode
    /\ rsync_extra = << >>
    /\ rbJobs = << >>
    /\ rbMount = "ua"
    /\ rbRet = "harness"
    /\ rbResult = "none"
    /\ ji = 0 /\ backup_day = 0 /\ attempt = 0 /\ rc = 1
    /\ argv = << >>
    /\ syncExecuted = FALSE
    /\ failedOn = {} /\ touched = {}
    /\ trace = << >>
    /\ pre = EmptyDest

\* one enrolled, verified disk, mounted by the caller
InitSnapshot ==
    /\ InitWorld
    /\ InitEngine
    /\ InitCommandIdle
    /\ InitLockIdle
    /\ InitAdminIdle
    /\ InitMoreIdle
    /\ InitIdentityIdle
    /\ \E c \in 0..MaxCopies : jobs = << HomeJob(c) >>
    /\ config = Catalog
    /\ connected = {"ua"}
    /\ media = [u \in Uuids |-> GoodMedia(Catalog[DiskOfUuid(u)])]
    /\ mounts = {"ua"}

NextSnapshot ==
    \/ call_run_backup
    \/ run_backup
    \/ return_run_backup
    \/ Tick
    \/ \E i \in 1..Len(jobs) : other_invocation(jobs[i].name)

SpecSnapshot == InitSnapshot /\ [][NextSnapshot]_vars


\* ---------------------------------------------------------------------
\* Properties of the snapshot engine (under SpecSnapshot)
\* ---------------------------------------------------------------------

InJob == pc \in {"rb_prepare", "rb_expire", "rb_seed", "rb_rsync",
                 "rb_current", "rb_next", "rb_fail"}
NormalMode == ~run_mode.dry_run /\ ~run_mode.safe_mode
Greatest(S, k) == {d \in S : Cardinality({e \in S : e > d}) < k}
Newest(S) == {d \in S : \A e \in S : e <= d}
OlderThanNewest(S) == S \ Newest(S)
HasFlag(args, f) == \E i \in 1..Len(args) : args[i] = f

\* C4: between runs, `current` of a job directory is absent or names a
\* dated directory that exists in it.  Stated for jobs with copies >= 1,
\* which "any configured copies" includes.
C4_CurrentNeverDangles ==
    (pc = "idle" /\ jobs[1].copies >= 1) =>
        \A u \in Uuids, n \in JobNames :
            vol[u][n].current \subseteq vol[u][n].dirs

C6_AtMostCopiesPlusOne ==
    pc = "idle" =>
        \A u \in Uuids, n \in JobNames :
            /\ Cardinality(vol[u][n].dirs) <= jobs[1].copies + 1
            /\ Cardinality(OlderThanNewest(vol[u][n].dirs)) <= jobs[1].copies

\* C6 amended: the bound holds at the end of every job run that is neither
\* safe-mode nor dry-run.
C6_AtMostCopiesPlusOneNormal ==
    (pc = "rb_next" /\ NormalMode) =>
        /\ Cardinality(Dest.dirs) <= Job.copies + 1
        /\ Cardinality(OlderThanNewest(Dest.dirs)) <= Job.copies

C6_Witness ==
    /\ pc = "rb_next" /\ NormalMode /\ Job.copies >= 1
    /\ Cardinality(pre.dirs) > Job.copies + 1
    /\ Cardinality(Dest.dirs) = Job.copies + 1

C10_SafeModeNoDeleteFlags ==
    /\ (InJob /\ run_mode.safe_mode) =>
          /\ pre.dirs \subseteq Dest.dirs
          /\ pre.current # {} => Dest.current = pre.current
    /\ argv # << >> =>
          /\ HasFlag(argv, "--delete-after") <=> ~run_mode.safe_mode
          /\ HasFlag(argv, "--delete-excluded") <=> ~run_mode.safe_mode

\* C10 amended: in safe mode no dated directory is deleted and an existing
\* `current` is not removed; run_rsync adds the delete flags exactly when
\* safe_mode is false, so in safe mode argv has them only if the extra SYNC
\* arguments have them.
C10_SafeModeKeepsAll ==
    /\ (InJob /\ run_mode.safe_mode) =>
          /\ pre.dirs \subseteq Dest.dirs
          /\ pre.current # {} => Dest.current = pre.current
    /\ argv # << >> =>
          \A f \in {"--delete-after", "--delete-excluded"} :
              HasFlag(argv, f) <=> (~run_mode.safe_mode \/ HasFlag(rsync_extra, f))

C10_Witness ==
    /\ pc = "rb_next" /\ run_mode.safe_mode /\ ~run_mode.dry_run
    /\ Cardinality(pre.dirs) > Job.copies
    /\ pre.current # {}
    /\ argv # << >> /\ ~HasFlag(argv, "--delete-after")


\* C11: in safe mode, as in dry-run, a job does not touch `current`: from
\* the start of the job to its end `current` is what it was before the job
\* (so a dest without `current` still has none), and the job does not fail
\* in the `current` update.
C11_SafeModeLeavesCurrent ==
    (InJob /\ (run_mode.safe_mode \/ run_mode.dry_run)) =>
        /\ Dest.current = pre.current
        /\ pc # "rb_fail"

\* C12: SYNC retry protocol.  A job that is past its SYNC step has made at
\* least one and at most MaxAttempts attempts; it stopped before the last
\* one only on exit code 0 or 24; and an attempt after the first is made
\* only when the attempt before it ended with a code other than 0 and 24.
C12_RetryProtocol ==
    /\ pc \in {"rb_current", "rb_next", "rb_fail"} =>
          /\ attempt \in 1..MaxAttempts
          /\ attempt < MaxAttempts => rc \in {RC_OK, RC_VANISHED}
    /\ (pc = "rb_rsync" /\ attempt > 0) =>
          /\ attempt < MaxAttempts
          /\ rc \notin {RC_OK, RC_VANISHED}

\* the second attempt ended with 24 and stopped the retries
C12_Witness ==
    /\ pc = "rb_current" /\ ~run_mode.dry_run
    /\ attempt = 2 /\ rc = RC_VANISHED


\* ---------------------------------------------------------------------
\* The backup command, run after run on one day
\* ---------------------------------------------------------------------

\* a job restricted to disks: db first, then da
AffineJob == [HomeJob(1) EXCEPT !.has_ids = TRUE, !.disk_ids = << "db", "da" >>]

\* what earlier days left in a job directory kept with copies = 1: nothing,
\* yesterday's snapshot, or yesterday's directory of a failed run with
\* `current` still naming the snapshot that retention has deleted since
PriorDests ==
    { EmptyDest,
      [exists |-> TRUE, dirs |-> {1}, current |-> {1}],
      [exists |-> TRUE, dirs |-> {1}, current |-> {0}] }

Init ==
    /\ today = 3
    /\ \E prior \in PriorDests :
          vol = [u \in Volumes |-> [n \in JobNames |->
                   IF u = "ua" /\ n = "home" THEN prior ELSE EmptyDest]]
    /\ pidfile = [n \in JobNames |-> "absent"]
    /\ excludesFile = << FALSE, << >> >>
    /\ InitEngine
    /\ InitCommandIdle
    /\ InitLockIdle
    /\ InitAdminIdle
    /\ InitMoreIdle
    /\ InitIdentityIdle
    /\ jobs \in { << HomeJob(1) >>, << AffineJob >> }
    /\ config = Catalog
    /\ connected \in SUBSET Uuids
    /\ media \in [Uuids -> UNION {MediaChoices(Catalog[i]) : i \in 1..Len(Catalog)}]
    /\ \A u \in Uuids : media[u] \in MediaChoices(Catalog[DiskOfUuid(u)])
    /\ \A u \in Uuids \ connected : media[u] = GoodMedia(Catalog[DiskOfUuid(u)])
    /\ \E u \in Uuids : media[u] = GoodMedia(Catalog[DiskOfUuid(u)])
    /\ mounts = {}

Next ==
    \/ run_backup_command
    \/ run_backup
    \/ \E i \in 1..Len(jobs) : other_invocation(jobs[i].name)

Spec == Init /\ [][Next]_vars

\* ---------------------------------------------------------------------
\* Two processes locking and unlocking the PID file of one job
\* ---------------------------------------------------------------------

\* no backup command is running; the catalog is enrolled and connected
InitBackupIdle ==
    /\ InitWorld
    /\ InitEngine
    /\ InitCommandIdle
    /\ jobs = << HomeJob(1) >>
    /\ config = Catalog
    /\ connected = Uuids
    /\ media = [u \in Uuids |-> GoodMedia(Catalog[DiskOfUuid(u)])]
    /\ mounts = {}

\* the PID path is free, or holds what a dead run left: its PID, or nothing
InitLock ==
    /\ InitBackupIdle
    /\ InitAdminIdle
    /\ InitMoreIdle
    /\ InitIdentityIdle
    /\ lockf \in {NoFile, StaleFile, [StaleFile EXCEPT !.text = ""]}
    /\ lpc = [p \in Procs |-> "idle"]
    /\ tries = [p \in Procs |-> 0]
    /\ seen = [p \in Procs |-> ""]
    /\ stolen = FALSE

NextLock ==
    \E p \in Procs :
        \/ lock_file_call(p)
        \/ lock_file_open(p)
        \/ lock_file_write(p)
        \/ lock_file_read(p)
        \/ lock_file_remove(p)
        \/ unlock_file_read(p)
        \/ unlock_file_remove(p)

SpecLock == InitLock /\ [][NextLock]_vars

Holders == {p \in Procs : lpc[p] \in {"held", "unl_remove"}}

\* C3: of two live processes at lock_file on one PID path at most one holds
\* the lock at any time, and no PID file that a live process created is
\* removed by the other process
C3_MutualExclusion == Cardinality(Holders) <= 1 /\ ~stolen

\* ---------------------------------------------------------------------
\* The disk administration commands, one after the other
\* ---------------------------------------------------------------------

InitAdmin ==
    /\ today = 1
    /\ \E prior \in {EmptyDest, [exists |-> TRUE, dirs |-> {0}, current |-> {0}]} :
          vol = [u \in Volumes |-> [n \in JobNames |->
                   IF u = "ua" /\ n = "home" THEN prior ELSE EmptyDest]]
    /\ pidfile = [n \in JobNames |-> "absent"]
    /\ excludesFile = << FALSE, << >> >>
    /\ InitEngine
    /\ InitCommandIdle
    /\ InitLockIdle
    /\ InitAdminIdle
    /\ InitMoreIdle
    /\ InitIdentityIdle
    /\ jobs = << HomeJob(1) >>
    /\ config \in {<< >>, << Catalog[1] >>, Catalog}
    /\ connected \in SUBSET Uuids
    /\ media \in [Uuids -> UNION {MediaChoices(Catalog[i]) : i \in 1..Len(Catalog)}]
    /\ \A u \in Uuids : media[u] \in MediaChoices(Catalog[DiskOfUuid(u)])
    /\ \A u \in Uuids \ connected : media[u] = GoodMedia(Catalog[DiskOfUuid(u)])
    /\ \E u \in Uuids : media[u] = GoodMedia(Catalog[DiskOfUuid(u)])
    /\ mounts = {}

NextAdmin ==
    \/ start_admin
    \/ enroll_mount
    \/ enroll_finish
    \/ run_unenroll
    \/ rename_config
    \/ rename_identity

SpecAdmin == InitAdmin /\ [][NextAdmin]_vars

\* C9: a step of a disk enroll, unenroll or rename given --dry-run changes
\* neither the config nor an identity file, and mounts nothing
C9_DryRunAdminChangesNothing ==
    [][acmd.dry_run => UNCHANGED << config, media, mounts >>]_vars

\* ---- properties of the backup command ----

RunBackupPcs == {"rb_lock", "rb_prepare", "rb_expire", "rb_seed", "rb_rsync",
                 "rb_current", "rb_next", "rb_fail"}

ConfiguredId(u) == config[CHOOSE i \in 1..Len(config) : config[i].fs_uuid = u].disk_id

\* the disk behind fs-uuid u is mounted and is the enrolled disk
PassesChecks(u) ==
    /\ u \in mounts
    /\ media[u].identity.kind = "yaml"
    /\ media[u].identity.version = 1
    /\ media[u].identity.disk_id = ConfiguredId(u)
    /\ media[u].identity.fs_uuid = u
    /\ FsTypeFromStr(media[u].blkid) \in AllowedFs
    /\ media[u].identity.fs_type # "" =>
           FsTypeFromStr(media[u].identity.fs_type) = FsTypeFromStr(media[u].blkid)

C1_RunsOnVerifiedDisk ==
    (pc \in RunBackupPcs /\ ~run_mode.dry_run) =>
        (rbMount \in Uuids /\ PassesChecks(rbMount))

C1_WritesOnVerifiedDisk ==
    \A u \in Uuids : vol'[u] # vol[u] => PassesChecks(u)

\* C1: in a non-dry-run backup run_backup works only on a disk that is
\* mounted and passed every check of mount_and_verify (identity file there,
\* version 1, diskId and fsUuid as configured, detected filesystem type
\* allowed, identity.fsType equal to it when present), as primary and as
\* cascade target; no job directory changes on a disk that fails a check
C1_OnlyVerifiedDisks ==
    []C1_RunsOnVerifiedDisk /\ [][C1_WritesOnVerifiedDisk]_vars

\* a cascade pass has run SYNC on the second disk after the primary's run
C1_Witness ==
    /\ pc = "rb_next"
    /\ rbRet = "cascade"
    /\ ~run_mode.dry_run
    /\ rbMount = "ub"
    /\ syncExecuted
    /\ vol["ub"]["home"].dirs # {}
    /\ vol["ua"]["home"].dirs # {}

\* C2: when the backup process has ended, on whichever path, nothing it
\* mounted is still mounted
C2_AllMountsReleased == pc = "exited" => mounts = {}

\* C8: a step of a dry-run backup leaves every job directory, the excludes
\* file, the config, the identity files and the mount table as they are,
\* takes no job lock, and executes neither SYNC nor `sync`
C8_DryRunChangesNothing ==
    [][(run_mode.dry_run /\ pc \notin {"idle", "exited"}) =>
          /\ UNCHANGED << vol, excludesFile, config, media, mounts >>
          /\ \A n \in JobNames : (pidfile'[n] = "own") = (pidfile[n] = "own")
          /\ ~syncExecuted'
          /\ ~flushed']_vars

\* a dry run has gone through a whole job, on a disk that has snapshots and
\* with another disk connected
C8_Witness ==
    /\ pc = "rb_next"
    /\ run_mode.dry_run
    /\ rbRet = "primary"
    /\ cascade
    /\ connected = Uuids
    /\ vol["ua"]["home"].dirs # {}

\* a step of the backup process (the other invocations leave pc alone)
ProcessStep == pc' # pc
ExitStep == pc # "exited" /\ pc' = "exited"

\* C13: when all MaxAttempts SYNC attempts of a job have failed, no further
\* job is begun and the process ends with exit code 1.
C13_ExhaustedRetriesAreFatal ==
    [][failedOn # {} =>
          /\ pc' # "rb_prepare"
          /\ ExitStep => exit_code' = 1]_vars

\* the lock step of a job whose PID file names a live process
LockStepOnLive ==
    /\ pc = "rb_lock" /\ ji <= Len(rbJobs)
    /\ pidfile[Job.name] = "live"
    /\ ProcessStep
LockedOut ==
    /\ pc' = "rb_ret" /\ rbResult' = "locked"
    /\ vol' = vol /\ excludesFile' = excludesFile /\ pidfile' = pidfile
LockedExit ==
    (pc = "rb_ret" /\ rbResult = "locked" /\ ProcessStep) =>
        /\ pc' = "exited" /\ exit_code' = 3
        /\ vol' = vol /\ excludesFile' = excludesFile

\* C14 as stated: a job whose PID file names a live process when its lock
\* is tried makes run_backup return "already running" with the dest, the
\* excludes file and the PID file as they were, and the process exits 3.
C14_LiveLockExits3 ==
    [][(LockStepOnLive => LockedOut) /\ LockedExit]_vars

\* C14 amended: the same for every run that is not a dry run.
C14_LiveLockExits3UnlessDryRun ==
    [][((LockStepOnLive /\ ~run_mode.dry_run) => LockedOut) /\ LockedExit]_vars

\* the primary's run_backup came back "already running" from a dest that
\* holds a snapshot
C14_Witness ==
    /\ pc = "rb_ret" /\ rbResult = "locked" /\ rbRet = "primary"
    /\ rbMount \in Uuids
    /\ vol[rbMount]["home"].dirs # {}
    /\ pidfile["home"] = "live"

\* the configured job of a name
ConfiguredJob(n) == CHOOSE j \in {jobs[i] : i \in 1..Len(jobs)} : j.name = n
PrimaryUuid == ConnList[primary].fs_uuid
CascadeList == CascadeJobs(ConnList[ci])
CascadeStep == pc = "casc_jobs" /\ ProcessStep

\* C16: the jobs handed to run_backup for a cascade target are the target's
\* cascade jobs, in order, with the source primary_mount/<name>/current and
\* the name, excludes and copies of the configured job.  When that path is
\* missing for one of them, a run that is not a dry run exits with 1 from
\* this step, with no run_backup on the target; a dry run leaves that job
\* out and goes on.
C16_CascadeSourceRewritten ==
    [][CascadeStep =>
          IF ~run_mode.dry_run /\ \E i \in 1..Len(CascadeList) :
                                      ~SourceExists(CascadeList[i])
          THEN /\ pc' = "exited" /\ exit_code' = 1
               /\ vol' = vol
          ELSE LET kept == SelectSeq(CascadeList, SourceExists)
               IN IF kept = << >>
                  THEN pc' = "casc_next" /\ vol' = vol
                  ELSE /\ pc' = "rb_lock" /\ rbRet' = "cascade"
                       /\ Len(rbJobs') = Len(kept)
                       /\ \A i \in 1..Len(kept) :
                             /\ rbJobs'[i].name = kept[i].name
                             /\ rbJobs'[i].source =
                                   CascadeSource(PrimaryUuid, kept[i].name)
                             /\ rbJobs'[i].excludes =
                                   ConfiguredJob(kept[i].name).excludes
                             /\ rbJobs'[i].copies =
                                   ConfiguredJob(kept[i].name).copies]_vars

\* a cascaded job has been run on the target from the primary's `current`
C16_Witness ==
    /\ pc = "rb_next" /\ rbRet = "cascade" /\ ~run_mode.dry_run
    /\ Job.source = CascadeSource(PrimaryUuid, Job.name)
    /\ Job.source # ConfiguredJob(Job.name).source
    /\ rsync_ok(rc)

\* <<disk, job>>: the job's SYNC failed on all attempts on its primary disk
FailedOnPrimary ==
    {f \in failedOn : \E i \in 1..Len(trace) :
        /\ trace[i].ev = "start" /\ trace[i].role = "primary"
        /\ trace[i].disk = f[1]}

\* C17: once the SYNC of a job has failed on all attempts on the primary,
\* nothing is written to that job's dest on any other disk, and the process
\* ends with exit code 1.
C17_NoCascadeAfterFailedPrimary ==
    [][\A f \in FailedOnPrimary :
          /\ \A u \in Uuids \ {f[1]} : vol'[u][f[2]] = vol[u][f[2]]
          /\ ExitStep => exit_code' = 1]_vars


\* ---------------------------------------------------------------------
\* One backup command on three enrolled disks and two jobs
\* ---------------------------------------------------------------------

\* a job restricted to the disks dc and db
EtcJob ==
    [name |-> "etc", source |-> "/etc", copies |-> 1, run_policy |-> "auto",
     excludes |-> << >>, has_ids |-> TRUE, disk_ids |-> << "dc", "db" >>]

\* a job allowed on all three disks, named last disk first
WideJob == [HomeJob(1) EXCEPT !.has_ids = TRUE, !.disk_ids = << "dc", "db", "da" >>]

InitCascade ==
    /\ today = 3
    /\ \E p \in PriorDests :
          vol = [u \in AllUuids \cup {"none"} |->
                   [n \in JobNames |->
                      IF u # "none" /\ n = "home" THEN p ELSE EmptyDest]]
    /\ pidfile = [n \in JobNames |-> "absent"]
    /\ excludesFile = << FALSE, << >> >>
    /\ InitEngine
    /\ InitCommandIdle
    /\ InitLockIdle
    /\ InitAdminIdle
    /\ InitMoreIdle
    /\ InitIdentityIdle
    /\ jobs \in {<< HomeJob(1), EtcJob >>, << EtcJob, HomeJob(1) >>,
                 << AffineJob, EtcJob >>, << WideJob, EtcJob >>}
    /\ config = ThreeDisks
    /\ connected \in SUBSET AllUuids
    /\ media = [u \in AllUuids |-> GoodMedia(ThreeDisks[
                   CHOOSE i \in 1..Len(ThreeDisks) : ThreeDisks[i].fs_uuid = u])]
    /\ mounts = {}

\* the command is given once, without extra SYNC arguments
start_once ==
    /\ pc = "idle"
    /\ rsync_extra' = << >>
    /\ start_backup_command

NextCascade ==
    \/ start_once
    \/ plan
    \/ next_group
    \/ mv_mount
    \/ mv_verify
    \/ primary_done
    \/ casc_next
    \/ casc_jobs
    \/ cascade_done
    \/ finish
    \/ run_backup

SpecCascade == InitCascade /\ [][NextCascade]_vars

\* ---- what the trace of a run says ----
CatIndex(u) == CHOOSE i \in 1..Len(config) : config[i].fs_uuid = u
JobIndex(n) == CHOOSE i \in 1..Len(jobs) : jobs[i].name = n
Starts(role) ==
    {i \in 1..Len(trace) : trace[i].ev = "start" /\ trace[i].role = role}
NamesOf(e) == {e.names[k] : k \in 1..Len(e.names)}
SamePrimary(i, k) ==
    \A m \in i..k : ~(trace[m].ev = "start" /\ trace[m].role = "primary")

\* C15: every run_backup call has returned before the next one is made
\* (one disk at a time); a cascade pass of a job starts only after the
\* job's run on another disk, its primary, has returned; and the cascade
\* passes of one primary go through the disks in catalog order.
C15_CascadeOrdering ==
    /\ \A i \in 1..Len(trace) :
          IF i % 2 = 1 THEN trace[i].ev = "start"
          ELSE /\ trace[i].ev = "end"
               /\ trace[i].disk = trace[i - 1].disk
               /\ trace[i].role = trace[i - 1].role
    /\ \A i \in Starts("cascade") : \A n \in NamesOf(trace[i]) :
          \E j \in 1..(i - 1) :
              /\ trace[j].ev = "end" /\ trace[j].role = "primary"
              /\ n \in NamesOf(trace[j])
              /\ trace[j].disk # trace[i].disk
    /\ \A i \in Starts("cascade"), k \in Starts("cascade") :
          (i < k /\ SamePrimary(i, k)) =>
              CatIndex(trace[i].disk) < CatIndex(trace[k].disk)

\* the primary db has cascaded to da and is cascading both jobs to dc
C15_Witness ==
    /\ Len(trace) = 5
    /\ trace[1].role = "primary" /\ trace[1].disk = "ub"
    /\ trace[3].role = "cascade" /\ trace[3].disk = "ua"
    /\ trace[5].role = "cascade" /\ trace[5].disk = "uc"
    /\ trace[5].names = << "home", "etc" >>
    /\ pc = "rb_rsync" /\ ~run_mode.dry_run

\* the jobs with run: auto, and the first connected disk of the catalog that
\* a job's diskIds allow (0: there is none)
AutoJobs == {j \in {jobs[i] : i \in 1..Len(jobs)} : j.run_policy = "auto"}
AllowedAt(j) ==
    {i \in 1..Len(config) :
        /\ config[i].fs_uuid \in connected
        /\ j.has_ids => \E k \in 1..Len(j.disk_ids) :
                             j.disk_ids[k] = config[i].disk_id}
FirstAllowed(j) ==
    IF AllowedAt(j) = {} THEN 0
    ELSE CHOOSE i \in AllowedAt(j) : \A l \in AllowedAt(j) : i <= l
Stranded == \E j \in AutoJobs : FirstAllowed(j) = 0

\* each primary run is on the first allowed disk of each of its jobs, with
\* its jobs in config order; the primaries follow the catalog; no job has
\* two primary runs; a run that ends with 0 has run every job
PrimaryRunsAsPlanned ==
    /\ \A i \in Starts("primary") :
          /\ \A n \in NamesOf(trace[i]) :
                CatIndex(trace[i].disk) = FirstAllowed(ConfiguredJob(n))
          /\ \A a \in 1..Len(trace[i].names), b \in 1..Len(trace[i].names) :
                a < b => JobIndex(trace[i].names[a]) < JobIndex(trace[i].names[b])
    /\ \A i \in Starts("primary"), k \in Starts("primary") :
          i < k => /\ CatIndex(trace[i].disk) < CatIndex(trace[k].disk)
                   /\ NamesOf(trace[i]) \cap NamesOf(trace[k]) = {}
    /\ (ExitStep /\ exit_code' = 0) =>
          \A j \in AutoJobs : \E i \in Starts("primary") : j.name \in NamesOf(trace[i])
StrandedExits2 ==
    /\ pc' = "exited" /\ exit_code' = 2
    /\ mounts' = {} /\ mounts = {}
    /\ trace = << >>

MvUuid == MvDisk.fs_uuid
MvIdentity == media[MvUuid].identity
\* the identity file is missing, or its version, diskId or fsUuid differs
IdentityFault ==
    \/ MvIdentity.kind = "missing"
    \/ /\ MvIdentity.kind = "yaml"
       /\ \/ MvIdentity.version # 1
          \/ MvIdentity.disk_id # MvDisk.disk_id
          \/ MvIdentity.fs_uuid # MvUuid
\* the identity is the disk's, and names another type than the detected one
FsTypeFault ==
    /\ MvIdentity.kind = "yaml" /\ ~IdentityFault
    /\ media[MvUuid].blkid # ""
    /\ FsTypeFromStr(media[MvUuid].blkid) \in AllowedFs
    /\ MvIdentity.fs_type # ""
    /\ FsTypeFromStr(MvIdentity.fs_type) # FsTypeFromStr(media[MvUuid].blkid)
VerifyStep == pc = "mv_verify" /\ ProcessStep
EndsUnmounted(codes) ==
    /\ pc' = "exited" /\ exit_code' \in codes
    /\ MvUuid \notin mounts'
    /\ vol' = vol

InitIdentity ==
    /\ InitBackupIdle
    /\ InitLockIdle
    /\ InitAdminIdle
    /\ InitMoreIdle
    /\ ipc = "new"
    /\ idIn \in {Identity(v, d, u, t) :
                     v \in Versions, d \in IdStrings, u \in UuidStrings, t \in FsTypes}
    /\ idWant \in IdStrings \X UuidStrings
    /\ idFile = NoDocument
    /\ tampered = ""
    /\ idOut = NoIdentity
    /\ idVerdict = "none"

SpecIdentity == InitIdentity /\ [][NextIdentity]_vars

Matches(identity) ==
    /\ identity.version = 1
    /\ identity.disk_id = idWant[1]
    /\ identity.fs_uuid = idWant[2]

\* C20: verify_identity(id, d, u) is Ok exactly when id.version = 1,
\* id.diskId = d and id.fsUuid = u, and IdentityMismatch otherwise; an
\* identity that matches (d, u), written by write_identity and read back by
\* read_identity, verifies; and after an edit of version, diskId or fsUuid
\* in the file it does not.
C20_VerifyIdentity ==
    ipc = "verified" =>
        /\ idOut.kind = "yaml" =>
              /\ idVerdict = "ok" <=> Matches(idOut)
              /\ idVerdict \in {"ok", "IdentityMismatch"}
        /\ (Matches(idIn) /\ tampered = "") => idVerdict = "ok"
        /\ (Matches(idIn) /\ tampered # "") => idVerdict # "ok"

\* an identity with a disk-id that YAML has to quote went through the file
\* and verified
C20_Witness ==
    /\ ipc = "verified" /\ tampered = ""
    /\ idIn.disk_id = "1" /\ idFile.diskId.quoted
    /\ idIn.fs_type = "zfs"
    /\ idVerdict = "ok"


\* ---------------------------------------------------------------------
\* select_disk on every sub-catalog of three disks and every set of
\* connected devices
\* ---------------------------------------------------------------------

SubCatalogs ==
    {SelectSeq(ThreeDisks, LAMBDA d : d.fs_uuid \in S) : S \in SUBSET AllUuids}

InitSelect ==
    /\ InitWorld
    /\ InitEngine
    /\ InitCommandIdle
    /\ InitLockIdle
    /\ InitAdminIdle
    /\ InitMoreIdle
    /\ InitIdentityIdle
    /\ jobs = << HomeJob(1) >>
    /\ config \in SubCatalogs
    /\ connected \in SUBSET AllUuids
    /\ media = [u \in Uuids |-> GoodMedia(Catalog[DiskOfUuid(u)])]
    /\ mounts = {}

NextSelect == select_disk_step

SpecSelect == InitSelect /\ [][NextSelect]_vars

\* the connected disks of the catalog
ConnectedEntries == {i \in 1..Len(config) : config[i].fs_uuid \in connected}
SelectedWhenOne ==
    LET c == Cardinality(ConnectedEntries)
    IN /\ c = 1 => /\ selOut.ok
                   /\ \E i \in ConnectedEntries : selOut.disk = config[i]
       /\ c = 0 => selOut = SelectErr("NoDiskConnected")
       /\ c > 1 => selOut = SelectErr("MultipleDisksConnected")

InitLoad ==
    /\ InitBackupIdle
    /\ InitLockIdle
    /\ InitAdminIdle
    /\ InitMoreIdle
    /\ InitIdentityIdle

NextLoad == load_config_step

SpecLoad == InitLoad /\ [][NextLoad]_vars

RawJobAt(i) == cfgRaw.jobs[i]
DiskIdCount(id) ==
    Cardinality({i \in 1..Len(cfgRaw.backup_disks) : cfgRaw.backup_disks[i].disk_id = id})
\* run is auto, demand or off, in any case, with blanks around it
RunWord(r) ==
    \E w \in {<< "a", "u", "t", "o" >>, << "d", "e", "m", "a", "n", "d" >>,
              << "o", "f", "f" >>} :
        \E a, b \in 0..Len(r) :
            /\ a + Len(w) + b = Len(r)
            /\ \A i \in 1..Len(r) :
                  IF i <= a \/ i > a + Len(w) THEN r[i] = " "
                  ELSE r[i] = w[i - a] \/ (r[i] \in DOMAIN LowerOf /\ LowerOf[r[i]] = w[i - a])
WellFormed ==
    /\ \A i \in 1..Len(cfgRaw.jobs) :
          /\ is_safe_name(RawJobAt(i).name)
          /\ \E k \in 1..Len(RawJobAt(i).source) : RawJobAt(i).source[k] # " "
          /\ RunWord(RawJobAt(i).run)
          /\ \A j \in 1..Len(cfgRaw.jobs) : i # j => RawJobAt(i).name # RawJobAt(j).name
          /\ \A k \in 1..Len(RawJobAt(i).disk_ids.ids) :
                DiskIdCount(RawJobAt(i).disk_ids.ids[k]) = 1
    /\ \A i, j \in 1..Len(cfgRaw.backup_disks) :
          i # j => cfgRaw.backup_disks[i].fs_uuid # cfgRaw.backup_disks[j].fs_uuid
UnsafeReferencedId ==
    \E i \in 1..Len(cfgRaw.jobs) : \E k \in 1..Len(RawJobAt(i).disk_ids.ids) :
        ~DiskId_from_str_ok(RawJobAt(i).disk_ids.ids[k])

InvalidErrors ==
    {"Invalid: duplicate fs-uuid", "Invalid: invalid run policy",
     "Invalid: source path is empty", "Invalid: job name is required",
     "Invalid: job name must use only letters", "Invalid: duplicate job name",
     "Invalid: job disk-id does not parse",
     "Invalid: job disk-id is duplicated in config",
     "Invalid: job disk-id not found in backupDisks"}

\* C22: load_config returns a RuntimeConfig only if the job names are
\* non-empty, safe and pairwise distinct, the sources non-empty, the run
\* values auto, demand or off (any case, trimmed), the fs-uuids pairwise
\* distinct and every id of a job's diskIds names exactly one backup disk;
\* otherwise it returns ConfigError::Invalid. Duplicate disk-ids that no job
\* names only produce the warning.
C22_LoadOnlyWellFormed ==
    cpc = "done" =>
        /\ cfgOut.ok => WellFormed
        /\ ~WellFormed => (~cfgOut.ok /\ cfgOut.err \in InvalidErrors)
        /\ (WellFormed /\ ~UnsafeReferencedId) =>
              /\ cfgOut.ok
              /\ cfgOut.warned = (\E i \in 1..Len(cfgRaw.backup_disks) :
                                     DiskIdCount(cfgRaw.backup_disks[i].disk_id) > 1)

\* a config with a duplicated disk-id that no job names is loaded, with the
\* warning, and keeps both jobs
C22_Witness ==
    /\ cpc = "done" /\ cfgOut.ok /\ cfgOut.warned
    /\ Len(cfgRaw.backup_disks) = 3 /\ Len(cfgOut.jobs) = 2
    /\ cfgOut.jobs[1].disk_ids = SomeIds(<< Str_db >>)
    /\ cfgOut.jobs[1].run_policy = "Demand"

\* C23: every job of a loaded RuntimeConfig has copies >= 1.
C23_LoadedCopiesPositive ==
    (cpc = "done" /\ cfgOut.ok) =>
        \A i \in 1..Len(cfgOut.jobs) : cfgOut.jobs[i].copies >= 1


\* ---- properties of disk enroll, unenroll and rename ----

DistinctCatalog(disks) ==
    \A i, j \in 1..Len(disks) :
        i # j => /\ disks[i].disk_id # disks[j].disk_id
                 /\ disks[i].fs_uuid # disks[j].fs_uuid

\* C24: from a config whose disk-ids and fs-uuids are pairwise distinct,
\* after any sequence of enroll, unenroll and rename commands, successful or
\* failed, the saved config still has pairwise distinct disk-ids and fs-uuids.
C24_CatalogStaysDistinct == DistinctCatalog(config)

\* ua was renamed, unenrolled and enrolled again, after db
C24_Witness ==
    /\ apc = "done" /\ aexit = 0
    /\ config = << [disk_id |-> "db", fs_uuid |-> "ub"],
                   [disk_id |-> "dc", fs_uuid |-> "ua"] >>

\* C25: an enroll without --force of a disk whose root holds `.timevault`
\* fails with DiskError::Other and leaves the identity file and the config
\* unchanged.
C25_EnrollRefusesExistingIdentity ==
    [][(/\ apc = "en_mounted"
        /\ ~acmd.force
        /\ media[acmd.fs_uuid].identity.kind # "missing")
       => (/\ aexit' = ExitCodeFor("Other")
           /\ UNCHANGED << config, media >>)]_vars

\* the fs-uuid of the enrolled disk a rename is about, "" for none
RenamedUuid ==
    IF apc = "rn_mounted" THEN acmd.fs_uuid
    ELSE LET idx == SelectEntry(acmd.fs_uuid, acmd.disk_id)
         IN IF idx > 0 THEN config[idx].fs_uuid ELSE ""
RenameReturns == apc \in {"rename", "rn_mounted"} /\ apc' = "done"

\* C26: when run_rename returns for an enrolled disk whose device is
\* present, the config entry of its fs-uuid and the diskId of its
\* `.timevault` both hold the new id on success and both hold the old id on
\* failure.
C26_RenameConfigAndIdentityTogether ==
    [][(/\ RenameReturns
        /\ RenamedUuid # "" /\ Enrolled(RenamedUuid)
        /\ RenamedUuid \in connected)
       => IF aexit' = 0
          THEN /\ \E i \in 1..Len(config') :
                     /\ config'[i].fs_uuid = RenamedUuid
                     /\ config'[i].disk_id = acmd.new_id
               /\ media'[RenamedUuid].identity.disk_id = acmd.new_id
          ELSE /\ media' = media
               /\ IF apc = "rename" THEN config' = config
                  ELSE \A i \in 1..Len(config') :
                          config'[i].fs_uuid = RenamedUuid
                              => config'[i].disk_id # acmd.new_id]_vars

\* ---------------------------------------------------------------------
\* The disk administration commands on configs as an editor can leave
\* them: three disks, and two disks under one disk-id
\* ---------------------------------------------------------------------

EditedCatalogs ==
    {<< >>, Catalog, ThreeDisks,
     << [disk_id |-> "da", fs_uuid |-> "ua"], [disk_id |-> "da", fs_uuid |-> "ub"] >>,
     << [disk_id |-> "da", fs_uuid |-> "ua"], [disk_id |-> "da", fs_uuid |-> "ub"],
        [disk_id |-> "db", fs_uuid |-> "uc"] >>}

InitUnenroll ==
    /\ InitWorld
    /\ InitEngine
    /\ InitCommandIdle
    /\ jobs = << HomeJob(1) >>
    /\ connected \in SUBSET Uuids
    /\ media = [u \in Uuids |-> GoodMedia(Catalog[DiskOfUuid(u)])]
    /\ mounts = {}
    /\ InitLockIdle
    /\ InitAdminIdle
    /\ InitMoreIdle
    /\ InitIdentityIdle
    /\ config \in EditedCatalogs

SpecUnenroll == InitUnenroll /\ [][NextAdmin]_vars

\* the entries that agree with every selector given
UnenrollHits ==
    {i \in 1..Len(config) :
        /\ (acmd.fs_uuid # "" => config[i].fs_uuid = acmd.fs_uuid)
        /\ (acmd.disk_id # "" => config[i].disk_id = acmd.disk_id)}
UnenrollMustFail ==
    \/ acmd.fs_uuid = "" /\ acmd.disk_id = ""
    \/ UnenrollHits = {}
    \/ acmd.fs_uuid = "" /\ Cardinality(UnenrollHits) > 1
WithoutEntry(i) ==
    config' = SubSeq(config, 1, i - 1) \o SubSeq(config, i + 1, Len(config))

\* C27: unenroll fails and leaves the config unchanged when no selector is
\* given, when no entry matches, when both selectors are given and no entry
\* matches both, and when only a disk-id is given that several entries have;
\* otherwise it removes exactly the one matching entry and keeps the others
\* in their order. It never touches the on-disk identity.
C27_UnenrollRemovesTheOneMatch ==
    [][apc = "unenroll"
       => /\ media' = media
          /\ IF UnenrollMustFail
             THEN aexit' # 0 /\ config' = config
             ELSE /\ aexit' = 0
                  /\ Cardinality(UnenrollHits) = 1
                  /\ \E i \in UnenrollHits : WithoutEntry(i)]_vars

\* ub, the second of two disks called da, was unenrolled by its fs-uuid
C27_Witness ==
    /\ apc = "done" /\ acmd.cmd = "unenroll" /\ aexit = 0
    /\ config = << [disk_id |-> "da", fs_uuid |-> "ua"],
                   [disk_id |-> "db", fs_uuid |-> "uc"] >>


\* ---------------------------------------------------------------------
\* save_config of a rewritten config over the file of the old one
\* ---------------------------------------------------------------------

InitSave ==
    /\ InitWorld
    /\ InitEngine
    /\ InitCommandIdle
    /\ InitLockIdle
    /\ InitAdminIdle
    /\ InitIdentityIdle
    /\ InitSelectIdle
    /\ InitLoadIdle
    /\ InitPristineIdle
    /\ InitLateIdle
    /\ jobs = << HomeJob(1) >>
    /\ config \in SubCatalogs
    /\ connected = Uuids
    /\ media = [u \in Uuids |-> GoodMedia(Catalog[DiskOfUuid(u)])]
    /\ mounts = {}
    /\ svpc = "idle"
    /\ cfgDisk = to_string(config)
    /\ svData = << >>

NextSave ==
    \/ save_config_create
    \/ save_config_write
    \/ save_config_write_error
    \/ save_config_crash

SpecSave == InitSave /\ [][NextSave]_vars

\* C28: at every instant of a save_config, a crash and a write error
\* included, the config file holds either the complete old contents or the
\* complete new contents.
C28_ConfigFileOldOrNew ==
    svpc # "idle" => cfgDisk \in {to_string(config), svData}


\* ---------------------------------------------------------------------
\* The pristine cache over refreshes and edits of one package-owned file
\* ---------------------------------------------------------------------

InitPristine ==
    /\ InitBackupIdle
    /\ InitLockIdle
    /\ InitAdminIdle
    /\ InitIdentityIdle
    /\ InitSelectIdle
    /\ InitLoadIdle
    /\ InitSaveIdle
    /\ InitLateIdle
    /\ prFile \in [kind : {"file"}, content : {"orig"}, mtime : Mtimes]
    /\ prCache = NoEntry
    /\ prExcluded = FALSE
    /\ prFirst = ""
    /\ prSeen = << >>

NextPristine ==
    \/ build_pristine_excludes
    \/ \E c \in Contents, m \in Mtimes : edit_file(c, m)
    \/ \E k \in FileKinds : change_kind(k)

SpecPristine == InitPristine /\ [][NextPristine]_vars

\* three refreshes in a row found the file pristine, then modified with a
\* new mtime, then restored with a new mtime
PristineModifiedRestored(i) ==
    /\ i + 2 <= Len(prSeen)
    /\ \A k \in i..(i + 2) : prSeen[k].kind = "file"
    /\ prSeen[i].stored /\ ~prSeen[i].dirty
    /\ prSeen[i + 1].content # prSeen[i].content
    /\ prSeen[i + 1].mtime # prSeen[i].mtime
    /\ prSeen[i + 2].content = prSeen[i].content
    /\ prSeen[i + 2].mtime # prSeen[i + 1].mtime
FlagsFollow ==
    \A i \in 1..Len(prSeen) :
        PristineModifiedRestored(i) =>
            /\ prSeen[i + 1].stored /\ prSeen[i + 1].dirty
            /\ prSeen[i + 2].stored /\ ~prSeen[i + 2].dirty

\* C29: over any sequence of refreshes the hash stored for the path is the
\* one recorded at its first observation, and a file seen pristine, then
\* modified, then restored (the mtime changing each time) has dirty false,
\* then true, then false.
C29_StoredHashNeverChanges ==
    /\ prCache.present => prCache.hash = prFirst
    /\ FlagsFollow

\* C30: after every refresh the entry is dirty exactly if the content hash
\* of the file differs from the stored hash, also when the content changed
\* under an unchanged mtime; no file that differs from its stored hash is in
\* the exclude list.
C30_DirtyIffHashDiffers ==
    [][Len(prSeen') > Len(prSeen)
       => /\ (prCache'.present /\ prFile.kind = "file")
                => (prCache'.dirty <=> hash_file(prFile.content) # prCache'.hash)
          /\ (prExcluded' /\ prFile.kind = "file")
                => hash_file(prFile.content) = prCache'.hash]_vars

\* ---------------------------------------------------------------------
\* C39: once mount_device has succeeded, every way run_enroll ends leaves
\* its temporary mount released: the step that ends the command from
\* "en_mounted" leaves the disk unmounted
\* ---------------------------------------------------------------------
C39_EnrollReleasesMount ==
    [][(apc = "en_mounted" /\ apc' = "done") => acmd.fs_uuid \notin mounts']_vars


\* ---------------------------------------------------------------------
\* C40: a release removes the PID file only while the file still holds the
\* PID of the releasing process: the remove_file of unlock_file never takes
\* away a file that holds another PID or that another process created
\* ---------------------------------------------------------------------
C40_ReleaseRemovesOnlyOwnPid ==
    [][\A p \in Procs :
          (lpc[p] = "unl_remove" /\ lpc'[p] = "idle" /\ lockf.present)
             => /\ ParsePid(lockf.text) = PidOf(p)
                /\ lockf.creator = p]_vars


\* ---------------------------------------------------------------------
\* expire_old_backups (backup/mod.rs) on a dest whose entries are
\* directories, symlinks and plain files, with names and mtimes
\* ---------------------------------------------------------------------

earlyVars == << today, vol, pidfile, excludesFile, engineVars, cmdVars, lockVars,
               adminVars, identVars, selVars, loadVars, saveVars, prVars >>

\* the bytes of the characters that occur in the names
ByteOf == ("+" :> 43) @@ ("." :> 46) @@ ("0" :> 48) @@ ("1" :> 49) @@ ("2" :> 50)
          @@ ("a" :> 97) @@ ("c" :> 99) @@ ("e" :> 101) @@ ("i" :> 105)
          @@ ("l" :> 108) @@ ("m" :> 109) @@ ("n" :> 110) @@ ("r" :> 114)
          @@ ("t" :> 116) @@ ("u" :> 117) @@ ("v" :> 118)

\* String's Ord: byte-wise lexicographic, a proper prefix is smaller
StrLess(a, b) ==
    \E i \in 1..(Len(b)) :
        /\ \A j \in 1..(i - 1) : j <= Len(a) /\ a[j] = b[j]
        /\ (i > Len(a) \/ (i <= Len(a) /\ ByteOf[a[i]] < ByteOf[b[i]]))
        /\ i - 1 <= Len(a)

Str_current == << "c", "u", "r", "r", "e", "n", "t" >>
TIMEVAULT_MARKER == << ".", "t", "i", "m", "e", "v", "a", "u", "l", "t" >>
Str_day1 == << "2", "0", "0", "1" >>
Str_day2 == << "2", "0", "0", "2" >>
Str_day10 == << "2", "0", "1", "0" >>
Str_late == << "2", "0", "1", "0", ".", "1" >>
DatedNames == {Str_day1, Str_day2, Str_day10, Str_late}
EntryKinds == {"dir", "symlink", "file"}

\* the children of dest: kind[n] is "none" for a name that is not there;
\* mtimes run with the names or against them
RankOf(n) == Cardinality({m \in DatedNames : StrLess(m, n)})
DestListings ==
    {[kind |-> k @@ (Str_current :> c) @@ (TIMEVAULT_MARKER :> t),
      mtime |-> [n \in DatedNames |-> IF up THEN RankOf(n) ELSE 3 - RankOf(n)]] :
        k \in [DatedNames -> EntryKinds \cup {"none"}],
        c \in {"none", "symlink", "dir"}, t \in {"none", "file"},
        up \in BOOLEAN}

Present(listing) == {n \in DOMAIN listing.kind : listing.kind[n] # "none"}

\* lines 162-170: the names pushed to `backups`
Backups(listing) == Present(listing) \ {Str_current, TIMEVAULT_MARKER}

\* lines 172-178: backups.sort(); the first len - copies names
FirstNames(listing, copies) ==
    LET b == Backups(listing)
    IN IF Cardinality(b) <= copies THEN {}
       ELSE {n \in b : Cardinality({m \in b : StrLess(m, n)}) < Cardinality(b) - copies}

\* a retention that removes whatever is at the name
Expired_any_kind(listing, copies, mode) ==
    IF mode.safe_mode \/ mode.dry_run THEN {}
    ELSE FirstNames(listing, copies)

\* lines 178-198: the names remove_dir_all is called on
Expired(listing, copies, mode) ==
    IF mode.safe_mode \/ mode.dry_run THEN {}
    ELSE {n \in FirstNames(listing, copies) : listing.kind[n] = "dir"}

exRest == << earlyVars, sigVars, mntVars, tmpVars, cmVars, sdVars, xclVars >>

\* expire_old_backups(job, dest, run_mode) on an existing dest
expire_entries ==
    /\ exIn = << >>
    /\ \E l \in DestListings, c \in 0..MaxCopies, m \in [dry_run : BOOLEAN, safe_mode : BOOLEAN] :
          ex' = [in |-> [listing |-> l, copies |-> c, mode |-> m],
                 out |-> [deleted |-> Expired(l, c, m)]]
    /\ UNCHANGED exRest

InitExpire ==
    /\ InitBackupIdle
    /\ InitLockIdle
    /\ InitAdminIdle
    /\ InitIdentityIdle
    /\ InitMoreIdle

NextExpire == expire_entries

SpecExpire == InitExpire /\ [][NextExpire]_vars

\* the names of dest other than `current` and `.timevault` that are among
\* the k smallest in name order
SmallestNames(listing, k) ==
    {n \in Backups(listing) :
        Cardinality({m \in Backups(listing) : StrLess(m, n)}) < k}

\* C35: every entry retention deletes is a real directory, is not `current`
\* or `.timevault`, and is among the count - copies smallest names of dest
\* in name order; with count <= copies nothing is deleted; the mtimes play
\* no part.
C35_RetentionDeletesOldestDirs ==
    exIn # << >> =>
        LET l == exIn.listing
            count == Cardinality(Backups(l))
        IN /\ \A n \in exOut.deleted :
                 /\ l.kind[n] = "dir"
                 /\ n \notin {Str_current, TIMEVAULT_MARKER}
                 /\ count > exIn.copies
                 /\ n \in SmallestNames(l, count - exIn.copies)
           /\ count <= exIn.copies => exOut.deleted = {}

\* a symlink, a plain file and a directory are among the smallest names,
\* `current` is a directory, and the directory deleted is the newest by mtime
C35_Witness ==
    /\ exIn # << >>
    /\ exIn.listing.kind[Str_day1] = "symlink"
    /\ exIn.listing.kind[Str_day2] = "file"
    /\ exIn.listing.kind[Str_day10] = "dir"
    /\ exIn.listing.kind[Str_late] = "dir"
    /\ exIn.listing.kind[Str_current] = "dir"
    /\ exIn.listing.mtime[Str_day10] > exIn.listing.mtime[Str_late]
    /\ exIn.copies = 1
    /\ exOut.deleted = {Str_day10}


\* ---------------------------------------------------------------------
\* Two invocations of one user, each running one job of its own: the PID
\* paths differ, ~/tmp/timevault.excludes is the same file
\* ---------------------------------------------------------------------

Invocations == {1, 2}
InvJob(p) == IF p = 1 THEN HomeJob(1) ELSE EtcJob

AtStart == [at |-> "start", attempt |-> 0, read |-> << FALSE, << >> >>]

xclRest == << today, vol, pidfile, engineVars, cmdVars, lockVars, adminVars,
             identVars, selVars, loadVars, saveVars, prVars,
             sigVars, mntVars, tmpVars, cmVars, exVars, sdVars >>

\* line 56: acquire_lock_for_job on /var/run/timevault.<job>.pid, which
\* no other invocation uses
inv_lock(p) ==
    /\ xinv[p].at = "start"
    /\ xinv' = [xinv EXCEPT ![p] = [AtStart EXCEPT !.at = "locked"]]
    /\ UNCHANGED excludesFile
    /\ UNCHANGED xclRest

\* lines 57-67: create_excludes_file(&job, ~/tmp/timevault.excludes)
inv_excludes(p) ==
    /\ xinv[p].at = "locked"
    /\ excludesFile' = ExcludesAfter(excludesFile, InvJob(p), NoMode)
    /\ xinv' = [xinv EXCEPT ![p].at = "prepared"]
    /\ UNCHANGED xclRest

\* lines 106-108: run_rsync starts a SYNC, which reads --exclude-from
inv_rsync(p, code) ==
    /\ xinv[p].at = "prepared"
    /\ xinv[p].attempt < MaxAttempts
    /\ xinv' = [xinv EXCEPT ![p] =
                  [at |-> IF rsync_ok(code) \/ xinv[p].attempt + 1 = MaxAttempts
                          THEN "synced" ELSE "prepared",
                   attempt |-> xinv[p].attempt + 1,
                   read |-> excludesFile]]
    /\ UNCHANGED excludesFile
    /\ UNCHANGED xclRest

\* the job ends, the LockGuard is dropped, run_backup returns
inv_finish(p) ==
    /\ xinv[p].at = "synced"
    /\ xinv' = [xinv EXCEPT ![p].at = "finished"]
    /\ UNCHANGED excludesFile
    /\ UNCHANGED xclRest

InitInvocations ==
    /\ InitBackupIdle
    /\ InitLockIdle
    /\ InitAdminIdle
    /\ InitIdentityIdle
    /\ InitSelectIdle
    /\ InitLoadIdle
    /\ InitSaveIdle
    /\ InitPristineIdle
    /\ InitSignalIdle
    /\ InitMountIdle
    /\ InitTempIdle
    /\ InitCommandRunnerIdle
    /\ InitExpireIdle
    /\ InitSeedIdle
    /\ xinv = [p \in Invocations |-> AtStart]

NextInvocations ==
    \E p \in Invocations :
        \/ inv_lock(p)
        \/ inv_excludes(p)
        \/ \E code \in RsyncCodes : inv_rsync(p, code)
        \/ inv_finish(p)

SpecInvocations == InitInvocations /\ [][NextInvocations]_vars

\* C38: under every interleaving of two invocations that run different
\* jobs, each SYNC of a job starts while the file named by its
\* --exclude-from holds exactly the exclude patterns of that job.
C38_SyncReadsOwnExcludes ==
    \A p \in Invocations :
        xinv[p].attempt > 0 => xinv[p].read = << TRUE, InvJob(p).excludes >>


\* ---------------------------------------------------------------------
\* `timevault disk mount` (cli/commands/mount.rs): select_disk, mount on a
\* fresh mountpoint under user_mount_base, verification
\* ---------------------------------------------------------------------

mntRest == << today, vol, pidfile, excludesFile, engineVars, media, connected,
             config, cascade, disk_arg, groups, gi, primary, pjobs, ci, exit_code,
             flushed, lockVars, adminVars, identVars, selVars, loadVars, saveVars,
             prVars, sigVars, tmpVars, cmVars, exVars, sdVars, xclVars >>

MountResult(res, err) == [res |-> res, err |-> err]

\* lines 41-86: what run_mount does with the mounted disk; unmount says
\* whether unmount_path is called on the way out
RunMountVerify(disk, m) ==
    IF m.identity.kind = "missing"
    THEN [res |-> "exit", err |-> "IdentityMismatch", unmount |-> TRUE]
    ELSE IF m.identity.kind = "garbage"
    THEN [res |-> "err", err |-> "Message", unmount |-> TRUE]
    ELSE IF ~verify_identity(m.identity, disk.disk_id, disk.fs_uuid)
    THEN [res |-> "exit", err |-> "IdentityMismatch", unmount |-> TRUE]
    ELSE IF m.blkid = ""
    THEN [res |-> "err", err |-> "Message", unmount |-> FALSE]
    ELSE IF ~is_allowed(FsTypeFromStr(m.blkid))
    THEN [res |-> "err", err |-> "Other", unmount |-> TRUE]
    ELSE IF m.identity.fs_type # ""
            /\ FsTypeFromStr(m.identity.fs_type) # FsTypeFromStr(m.blkid)
    THEN [res |-> "err", err |-> "IdentityMismatch", unmount |-> TRUE]
    ELSE [res |-> "ok", err |-> "", unmount |-> FALSE]

\* lines 15-40: select_disk, the device, ensure_disk_not_mounted, mount_device
run_mount_mount ==
    /\ mtpc = "idle"
    /\ \E a \in {""} \cup DiskIds :
          LET sel == select_disk(config, a)
              e == IF sel.ok THEN MountOutcome(sel.disk, media[sel.disk.fs_uuid])
                   ELSE sel.err
          IN IF ~sel.ok
             THEN /\ mt' = [pc |-> "done", arg |-> a, disk |-> mtDisk,
                            out |-> MountResult("exit", sel.err)]
                  /\ UNCHANGED mounts
             ELSE IF e # ""
             THEN /\ mt' = [pc |-> "done", arg |-> a, disk |-> sel.disk.fs_uuid,
                            out |-> MountResult("err", e)]
                  /\ UNCHANGED mounts
             ELSE /\ mt' = [pc |-> "mounted", arg |-> a, disk |-> sel.disk.fs_uuid,
                            out |-> mtOut]
                  /\ mounts' = mounts \cup {sel.disk.fs_uuid}
    /\ UNCHANGED mntRest

\* lines 41-89: the identity file and the filesystem type of the mounted disk
run_mount_verify ==
    /\ mtpc = "mounted"
    /\ LET disk == config[CHOOSE i \in 1..Len(config) : config[i].fs_uuid = mtDisk]
           v == RunMountVerify(disk, media[mtDisk])
       IN /\ mt' = [mt EXCEPT !.pc = "done", !.out = MountResult(v.res, v.err)]
          /\ mounts' = IF v.unmount THEN mounts \ {mtDisk} ELSE mounts
    /\ UNCHANGED mntRest

InitMount ==
    /\ InitWorld
    /\ InitEngine
    /\ InitCommandIdle
    /\ InitLockIdle
    /\ InitAdminIdle
    /\ InitIdentityIdle
    /\ InitMoreIdle
    /\ jobs = << HomeJob(1) >>
    /\ config = Catalog
    /\ connected \in SUBSET Uuids
    /\ media \in [Uuids -> UNION {MediaChoices(Catalog[i]) : i \in 1..Len(Catalog)}]
    /\ mounts = {}

NextMount ==
    \/ run_mount_mount
    \/ run_mount_verify

SpecMount == InitMount /\ [][NextMount]_vars

\* C32: `disk mount` leaves the disk mounted only when every verification
\* passed: when the command has ended in a failure after its mount
\* succeeded, the disk is unmounted.
C32_MountedOnlyWhenVerified ==
    (mtpc = "done" /\ mtOut.res # "ok") => mtDisk \notin mounts


\* ---------------------------------------------------------------------
\* create_temp_dir (util/paths.rs) called by the processes that share a
\* base directory, while the clock runs
\* ---------------------------------------------------------------------

MaxMillis == 2
\* run_mount's prefix
TempPrefixes == {"tv"}

\* Utc::now().format("%Y%m%d%H%M%S%3f"): digits of fixed width
Stamp(ms) == IF ms < 10 THEN "00" \o ToString(ms)
             ELSE IF ms < 100 THEN "0" \o ToString(ms)
             ELSE ToString(ms)

\* format!("{}-{}-{}", prefix, std::process::id(), ts)
TempName(prefix, pid, ms) == prefix \o "-" \o ToString(pid) \o "-" \o Stamp(ms)

tmpRest == << earlyVars, sigVars, mntVars, cmVars, exVars, sdVars, xclVars >>

\* create_temp_dir(base, prefix) in process p: create_dir_all succeeds on a
\* directory that is there already
create_temp_dir(p, prefix) ==
    LET candidate == TempName(prefix, PidOf(p), tnow)
    IN /\ tmp' = [tmp EXCEPT
                    !.ret = @ \cup {[proc |-> p, path |-> candidate,
                                     existed |-> candidate \in tdirs]},
                    !.dirs = @ \cup {candidate}]
       /\ UNCHANGED tmpRest

\* a millisecond passes
tick_millis ==
    /\ tnow < MaxMillis
    /\ tmp' = [tmp EXCEPT !.now = @ + 1]
    /\ UNCHANGED tmpRest

InitTemp ==
    /\ InitBackupIdle
    /\ InitLockIdle
    /\ InitAdminIdle
    /\ InitIdentityIdle
    /\ InitSelectIdle
    /\ InitLoadIdle
    /\ InitSaveIdle
    /\ InitPristineIdle
    /\ InitSignalIdle
    /\ InitMountIdle
    /\ InitCommandRunnerIdle
    /\ InitExpireIdle
    /\ InitSeedIdle
    /\ InitInvocationsIdle
    /\ InitTempIdle

NextTemp ==
    \/ \E p \in Procs, prefix \in TempPrefixes : create_temp_dir(p, prefix)
    \/ tick_millis

SpecTemp == InitTemp /\ [][NextTemp]_vars

\* C33: no call of create_temp_dir returns a directory that existed before
\* the call, so no two calls, in one process within one millisecond or in
\* different processes, return the same path.
C33_TempDirIsFresh == \A r \in tret : ~r.existed


\* ---------------------------------------------------------------------
\* run_command and run_nice_ionice (util/command.rs)
\* ---------------------------------------------------------------------

\* what the child would end with if it were started: an exit code, or
\* -1 for a child killed by a signal (status.code() is None)
ChildEnds == {0, 1, RC_FAILED, RC_VANISHED, -1}
CommandLines == {<< "sync" >>, << "umount", "/mnt" >>, << "rsync", "-ar", "/home/", "/mnt/home/" >>}
RunModes == [dry_run : BOOLEAN, verbose : BOOLEAN]

\* status.code().unwrap_or(1)
StatusCode(ends) == IF ends < 0 THEN 1 ELSE ends

\* maybe_print_command: the line printed, << >> for none
maybe_print_command(cmdline, mode) ==
    IF ~mode.dry_run /\ ~mode.verbose THEN << >> ELSE << cmdline >>

\* run_command: the command is printed, started and waited for
run_command(cmdline, mode, ends) ==
    [executed |-> << cmdline >>, printed |-> maybe_print_command(cmdline, mode),
     ret |-> StatusCode(ends)]

\* the `nice -n 19 ionice -c 3 -n7` prefix
NiceArgv(args) == << "nice", "-n", "19", "ionice", "-c", "3", "-n7" >> \o args

\* run_nice_ionice
run_nice_ionice(args, mode, ends) ==
    IF mode.dry_run
    THEN [executed |-> << >>, printed |-> maybe_print_command(NiceArgv(args), mode),
          ret |-> 0]
    ELSE run_command(NiceArgv(args), mode, ends)

cmRest == << earlyVars, sigVars, mntVars, tmpVars, exVars, sdVars, xclVars >>

run_command_call ==
    /\ cmIn = << >>
    /\ \E cmdline \in CommandLines, mode \in RunModes, ends \in ChildEnds :
          cm' = [in |-> [fn |-> "run_command", argv |-> cmdline, mode |-> mode,
                         ends |-> ends],
                 out |-> run_command(cmdline, mode, ends)]
    /\ UNCHANGED cmRest

run_nice_ionice_call ==
    /\ cmIn = << >>
    /\ \E cmdline \in CommandLines, mode \in RunModes, ends \in ChildEnds :
          cm' = [in |-> [fn |-> "run_nice_ionice", argv |-> cmdline, mode |-> mode,
                         ends |-> ends],
                 out |-> run_nice_ionice(cmdline, mode, ends)]
    /\ UNCHANGED cmRest

InitRunner ==
    /\ InitBackupIdle
    /\ InitLockIdle
    /\ InitAdminIdle
    /\ InitIdentityIdle
    /\ InitMoreIdle

NextRunner ==
    \/ run_command_call
    \/ run_nice_ionice_call

SpecRunner == InitRunner /\ [][NextRunner]_vars

\* C34: with dry_run set neither run_command nor run_nice_ionice starts the
\* command and both return 0; with dry_run unset both start it and return
\* its exit code.
C34_RunnerHonoursDryRun ==
    cmIn # << >> =>
        IF cmIn.mode.dry_run
        THEN cmOut.executed = << >> /\ cmOut.ret = 0
        ELSE /\ Len(cmOut.executed) = 1
             /\ cmOut.ret = StatusCode(cmIn.ends)


\* ---------------------------------------------------------------------
\* The seed of run_backup and copy_snapshot_without_symlinks
\* (backup/mod.rs) on a snapshot of directories, regular files, symlinks
\* and a fifo
\* ---------------------------------------------------------------------

\* the relative paths of the snapshot; "a/x" is below "a"
SeedPaths == {"a", "a/x", "b"}
ParentOf == ("a/x" :> "a")
NoNode == [kind |-> "none", inode |-> ""]
DirNode == [kind |-> "dir", inode |-> ""]
\* a regular file of the snapshot: its inode is named after its path there
FileNode(p) == [kind |-> "file", inode |-> "ino:" \o p]
NodesAt(p) == {NoNode, DirNode, FileNode(p),
               [kind |-> "symlink", inode |-> ""], [kind |-> "fifo", inode |-> ""]}

\* the trees: a path is there only below a directory
Snapshots ==
    {t \in [SeedPaths -> UNION {NodesAt(p) : p \in SeedPaths}] :
        /\ \A p \in SeedPaths : t[p] \in NodesAt(p)
        /\ \A p \in DOMAIN ParentOf : t[p] # NoNode => t[ParentOf[p]] = DirNode}
EmptyTree == [p \in SeedPaths |-> NoNode]

\* the orders WalkDir can yield the entries in: a directory before its contents
WalkOrders == {<< "a", "a/x", "b" >>, << "b", "a", "a/x" >>}

\* the position of the first hard_link that fails, 0 when none does
FirstFailure(tree, order, xdev) ==
    LET bad == {i \in 1..Len(order) : xdev /\ tree[order[i]].kind = "file"}
    IN IF bad = {} THEN 0 ELSE CHOOSE i \in bad : \A j \in bad : i <= j

\* a seed that copies the files instead of linking them
SeedNode_copies(node, p) ==
    CASE node.kind = "dir" -> DirNode
      [] node.kind = "file" -> [kind |-> "file", inode |-> "new:" \o p]
      [] OTHER -> NoNode

\* lines 213-237: what one entry of the walk leaves at the target
SeedNode(node, p) ==
    CASE node.kind = "dir" -> DirNode
      [] node.kind = "file" -> node
      [] OTHER -> NoNode

\* copy_snapshot_without_symlinks(current, backup_dir, run_mode): the tree
\* below backup_dir and the result
copy_snapshot_without_symlinks(tree, order, xdev, mode) ==
    IF mode.dry_run THEN [res |-> "ok", tree |-> EmptyTree]
    ELSE LET f == FirstFailure(tree, order, xdev)
             walked == IF f = 0 THEN SeedPaths ELSE {order[i] : i \in 1..(f - 1)}
         IN [res |-> IF f = 0 THEN "ok" ELSE "err",
             tree |-> [p \in SeedPaths |->
                         IF p \in walked THEN SeedNode(tree[p], p) ELSE NoNode]]

\* run_backup, lines 97-104: backup_dir after the step; made says whether
\* backup_dir is there, prior is what it held before
Seed(in) ==
    IF in.current_exists /\ ~in.backup_dir_exists
    THEN LET c == copy_snapshot_without_symlinks(in.current, in.order, in.xdev, in.mode)
         IN [seeded |-> TRUE, made |-> ~in.mode.dry_run, res |-> c.res, tree |-> c.tree]
    ELSE [seeded |-> FALSE, made |-> in.backup_dir_exists, res |-> "ok",
          tree |-> IF in.backup_dir_exists THEN in.prior ELSE EmptyTree]

sdRest == << earlyVars, sigVars, mntVars, tmpVars, cmVars, exVars, xclVars >>

SeedInputs ==
    [current_exists : BOOLEAN, current : Snapshots, backup_dir_exists : BOOLEAN,
     prior : {EmptyTree, [EmptyTree EXCEPT !["b"] = [kind |-> "file", inode |-> "old"]]},
     order : WalkOrders, xdev : BOOLEAN,
     mode : [dry_run : BOOLEAN, safe_mode : {FALSE}]]

seed_backup_dir ==
    /\ sdIn = << >>
    /\ \E in \in SeedInputs :
          sd' = [in |-> in, out |-> Seed(in)]
    /\ UNCHANGED sdRest

InitSeed ==
    /\ InitBackupIdle
    /\ InitLockIdle
    /\ InitAdminIdle
    /\ InitIdentityIdle
    /\ InitMoreIdle

NextSeed == seed_backup_dir

SpecSeed == InitSeed /\ [][NextSeed]_vars

\* backup_dir holds every directory of `current` at its path, every regular
\* file as a link to the same inode, and nothing else
HardlinkClone ==
    /\ sdOut.made
    /\ \A p \in SeedPaths :
          /\ sdIn.current[p].kind = "dir" => sdOut.tree[p].kind = "dir"
          /\ sdIn.current[p].kind = "file" => sdOut.tree[p] = sdIn.current[p]
          /\ sdIn.current[p].kind \notin {"dir", "file"} => sdOut.tree[p] = NoNode
LinkFails ==
    sdIn.xdev /\ \E p \in SeedPaths : sdIn.current[p].kind = "file"
\* a link failed: the step ends in an error, and no file of backup_dir is
\* anything but a link to the file of `current`
AbortedNoCopy ==
    /\ sdOut.res = "err"
    /\ \A p \in SeedPaths :
          sdOut.tree[p].kind = "file" => sdOut.tree[p] = sdIn.current[p]
NoSeeding ==
    /\ ~sdOut.seeded
    /\ sdOut.made = sdIn.backup_dir_exists
    /\ sdIn.backup_dir_exists => sdOut.tree = sdIn.prior

\* C36 as stated: when `current` exists and backup_dir does not, backup_dir
\* becomes a hardlink clone of `current` (directories recreated, regular
\* files linked to the same inodes, no symlink created), a failing link
\* aborts the job with an error and no copy is made; otherwise nothing is
\* seeded.
C36_SeedIsHardlinkClone ==
    sdIn # << >> =>
        IF sdIn.current_exists /\ ~sdIn.backup_dir_exists
        THEN IF LinkFails THEN AbortedNoCopy ELSE HardlinkClone /\ sdOut.res = "ok"
        ELSE NoSeeding

\* C36 amended: the same for every run that is not a dry run; in a dry run
\* the step prints what it would do and creates nothing.
C36_SeedIsHardlinkCloneUnlessDryRun ==
    sdIn # << >> =>
        IF sdIn.current_exists /\ ~sdIn.backup_dir_exists
        THEN IF sdIn.mode.dry_run
             THEN ~sdOut.made /\ sdOut.tree = EmptyTree /\ sdOut.res = "ok"
             ELSE IF LinkFails THEN AbortedNoCopy
             ELSE HardlinkClone /\ sdOut.res = "ok"
        ELSE NoSeeding

\* a snapshot with a directory, a file in it and a symlink was cloned
C36_Witness ==
    /\ sdIn # << >>
    /\ sdIn.current_exists /\ ~sdIn.backup_dir_exists /\ ~sdIn.mode.dry_run
    /\ ~sdIn.xdev
    /\ sdIn.current["a"].kind = "dir"
    /\ sdIn.current["a/x"].kind = "file"
    /\ sdIn.current["b"].kind = "symlink"
    /\ sdOut.tree["a/x"] = FileNode("a/x")
    /\ sdOut.tree["b"] = NoNode


\* ---------------------------------------------------------------------
\* The mount tracker of backup() (lib.rs) and the signal task
\* (signal_handler.rs): the main thread and the task run side by side
\* ---------------------------------------------------------------------

\* mountpoints as the bytes of their paths
Path_m == << "/", "m" >>
Path_n == << "/", "n" >>
Path_ma == << "/", "m", "/", "a" >>
Path_nbc == << "/", "n", "/", "b", "c" >>
MountPaths == {Path_m, Path_n, Path_ma, Path_nbc}

\* Path::starts_with for a path below another one
NestedUnder(a, b) ==
    /\ Len(a) > Len(b) + 1
    /\ \A i \in 1..Len(b) : a[i] = b[i]
    /\ a[Len(b) + 1] = "/"

\* a signal task that sorts shortest path first
SortedLists_shortest_first(S) ==
    {s \in [1..Cardinality(S) -> S] :
        /\ \A i, j \in 1..Cardinality(S) : i # j => s[i] # s[j]
        /\ \A i, j \in 1..Cardinality(S) : i < j => Len(s[i]) <= Len(s[j])}

\* set.iter().cloned().collect() and sort_by_key(Reverse(len)): the HashSet
\* yields its elements in any order and the sort is stable, so paths of
\* one length come in any order
SortedLists(S) ==
    {s \in [1..Cardinality(S) -> S] :
        /\ \A i, j \in 1..Cardinality(S) : i # j => s[i] # s[j]
        /\ \A i, j \in 1..Cardinality(S) : i < j => Len(s[i]) >= Len(s[j])}

\* umount(8) on m: a mountpoint with a mount below it is busy
CanUnmount(m) == m \in kmounted /\ ~\E c \in kmounted : NestedUnder(c, m)

Running == sexit = -1

sigRest == << earlyVars, mntVars, tmpVars, cmVars, exVars, sdVars, xclVars >>

\* lib.rs 621-628: the job's mountpoint is not mounted; Mount(&mount).run,
\* its result dropped
job_mount ==
    /\ Running /\ mpc = "idle"
    /\ \E m \in MountPaths \ kmounted :
          \E k \in {kmounted \cup {m}, kmounted} :
              sig' = [sig EXCEPT !.mjob = m, !.kmounted = k, !.mpc = "mounted"]
    /\ UNCHANGED sigRest

\* lib.rs 630-632: is_mounted, track_mount
job_track ==
    /\ Running /\ mpc = "mounted"
    /\ sig' = [sig EXCEPT
                  !.tracked = IF mjob \in kmounted THEN tracked \cup {mjob} ELSE tracked,
                  !.mpc = "tracked"]
    /\ UNCHANGED sigRest

\* lib.rs 639, 649, 725: UnMount(&mount).run, its result dropped
job_unmount ==
    /\ Running /\ mpc = "tracked"
    /\ \E k \in {kmounted} \cup
                  (IF CanUnmount(mjob) THEN {kmounted \ {mjob}} ELSE {}) :
          sig' = [sig EXCEPT !.kmounted = k, !.mpc = "unmounted"]
    /\ UNCHANGED sigRest

\* lib.rs 640, 650, 727: untrack_mount; the next job
job_untrack ==
    /\ Running /\ mpc = "unmounted"
    /\ sig' = [sig EXCEPT !.tracked = tracked \ {mjob}, !.mpc = "idle"]
    /\ UNCHANGED sigRest

\* signal_handler.rs 19-24: SIGINT or SIGTERM arrives; the set is copied
\* under the lock and sorted
signal_received ==
    /\ Running /\ hpc = "idle"
    /\ \E list \in SortedLists(tracked) :
          sig' = [sig EXCEPT !.hlist = list, !.hpc = "umount"]
    /\ UNCHANGED sigRest

\* signal_handler.rs 25-29: umount on the next mountpoint, its status dropped
signal_umount ==
    /\ Running /\ hpc = "umount" /\ hlist # << >>
    /\ \E k \in {kmounted} \cup
                  (IF CanUnmount(Head(hlist)) THEN {kmounted \ {Head(hlist)}} ELSE {}) :
          sig' = [sig EXCEPT !.kmounted = k,
                             !.hdone = Append(hdone, Head(hlist)),
                             !.hlist = Tail(hlist)]
    /\ UNCHANGED sigRest

\* signal_handler.rs 30: std::process::exit(1)
signal_exit ==
    /\ Running /\ hpc = "umount" /\ hlist = << >>
    /\ sig' = [sig EXCEPT !.sexit = 1, !.hpc = "exited"]
    /\ UNCHANGED sigRest

InitSignal ==
    /\ InitBackupIdle
    /\ InitLockIdle
    /\ InitAdminIdle
    /\ InitIdentityIdle
    /\ InitMoreIdle

NextSignal ==
    \/ job_mount
    \/ job_track
    \/ job_unmount
    \/ job_untrack
    \/ signal_received
    \/ signal_umount
    \/ signal_exit

SpecSignal == InitSignal /\ [][NextSignal]_vars

Attempted == {hdone[i] : i \in 1..Len(hdone)}

\* C31: while the program runs every mountpoint it mounted and that is
\* still mounted is in the tracked set, and when the signal task has ended
\* the process with code 1 umount was run on every mount the program held.
C31_TrackedCoversMounted ==
    /\ Running => kmounted \subseteq tracked
    /\ hpc = "exited" => kmounted \subseteq Attempted

\* ---------------------------------------------------------------------
\* The signal task on any tracked set, the mountpoints mounted
\* ---------------------------------------------------------------------

InitTeardown ==
    /\ InitBackupIdle
    /\ InitLockIdle
    /\ InitAdminIdle
    /\ InitIdentityIdle
    /\ InitSelectIdle
    /\ InitLoadIdle
    /\ InitSaveIdle
    /\ InitPristineIdle
    /\ InitMountIdle
    /\ InitTempIdle
    /\ InitCommandRunnerIdle
    /\ InitExpireIdle
    /\ InitSeedIdle
    /\ InitInvocationsIdle
    /\ \E held \in SUBSET MountPaths :
          sig = [IdleProcess EXCEPT !.tracked = held, !.kmounted = held,
                                    !.mpc = "tracked"]

NextTeardown ==
    \/ signal_received
    \/ signal_umount
    \/ signal_exit

SpecTeardown == InitTeardown /\ [][NextTeardown]_vars

PositionOf(m) == CHOOSE i \in 1..Len(hdone) : hdone[i] = m

\* C37: the signal task runs umount on the tracked mountpoints in order of
\* decreasing path length, a mountpoint nested under another one before
\* that one; it goes on after an umount that failed, and the process exits
\* with code 1 only after umount was run once on every tracked mountpoint.
C37_LongestFirstThenExit ==
    /\ \A i, j \in 1..Len(hdone) : i < j => Len(hdone[i]) >= Len(hdone[j])
    /\ \A a, b \in Attempted : NestedUnder(a, b) => PositionOf(a) < PositionOf(b)
    /\ hpc = "exited" =>
          /\ sexit = 1
          /\ Attempted = tracked
          /\ Len(hdone) = Cardinality(tracked)
    /\ sexit # -1 => hpc = "exited"

\* both nested pairs were tracked, an umount failed, and the task went on
\* to the end
C37_Witness ==
    /\ hpc = "exited"
    /\ tracked = MountPaths
    /\ hdone[1] = Path_nbc /\ hdone[2] = Path_ma
    /\ Path_nbc \in kmounted
    /\ Path_m \notin kmounted

====
